---------------------------- MODULE Spec2Model ----------------------------
(***************************************************************************)
(* Model of the expense-splitter group engine (package groups): one Group  *)
(* with its membership map, debt graph, expense log and id counter, the    *)
(* split functions, the settlement calculator and the DOT exporter.        *)
(*                                                                         *)
(* Representation choices                                                  *)
(*  - A Go string is a sequence of one-character strings, so that          *)
(*    TrimSpace, ToLower, the name pattern and byte-wise ordering are      *)
(*    computed and not assumed.                                            *)
(*  - A Go map is a function; the empty map is <<>>.                       *)
(*  - int64 amounts are integers; every amount of the model stays far      *)
(*    below 2^31, so no int64 operation of the code can overflow here.     *)
(*  - float64 percentages are integers counting 1/UnitsPerPercent of a     *)
(*    percentage point, float64 weights are integers, and the products     *)
(*    and quotients the code takes of them are computed exactly (floor and *)
(*    fractional part as quotient and remainder).  float64 rounding error  *)
(*    is not modelled.                                                     *)
(*  - time.Time fields (CreatedAt) are left out: nothing reads them.       *)
(*  - Every exported method holds Group.mu for its whole body (Lock with   *)
(*    deferred Unlock), so one call is one action of Spec.                 *)
(*  - The order in which a Go map is ranged over is a choice: a function   *)
(*    that ranges over a map yields the set of its results over all orders.*)
(*  - ConcSpec and RegistrySpec split the calls into steps of goroutines;  *)
(*    ToolSpec calls the tool handlers add_people and add_expense.         *)
(***************************************************************************)
EXTENDS Integers, Sequences, FiniteSets, TLC

VARIABLES
    people,            \* Group.people: canonical key -> Person
    nodes,             \* Group.graph.nodes: canonical key -> sequence of edges
    expenses,          \* Group.expenses: id -> Expense
    expenseIdCounter,  \* Group.expenseIdCounter
    shareLog,          \* history: id -> the share map AddExpense computed for it
    last,              \* history: the last call on the group and what it returned
    call,              \* the last direct call of a split function (SplitSpec)
    mu,                \* the mutexes: groupMgr.mu, Group.mu of this group and
                       \* of another group; 0 or the goroutine that holds it
    goroutines,        \* the call each goroutine is in and its position (ConcSpec)
    store,             \* groupMgr.store: canonical key -> Group (its Name)
    created            \* history: per key, the Create calls that succeeded
                       \* minus the Delete calls that returned true

vars == <<people, nodes, expenses, expenseIdCounter, shareLog, last, call,
          mu, goroutines, store, created>>

groupVars == <<people, nodes, expenses, expenseIdCounter, shareLog>>

concVars == <<mu, goroutines, store, created>>

-----------------------------------------------------------------------------
(* Bounds of the exploration *)

\* AddExpense is not explored once this many expenses are committed
MaxExpenses == 2

-----------------------------------------------------------------------------
(* Strings *)

\* byte value of the characters the model uses (Go compares strings byte-wise).
\* "Kelvin" stands for the one character U+212A KELVIN SIGN, which is no ASCII
\* letter, whose UTF-8 encoding starts with the byte 226 and which
\* strings.ToLower maps to "k".
Ord(c) ==
    CASE c = " " -> 32
      [] c = "-" -> 45
      [] c = "1" -> 49
      [] c = "A" -> 65
      [] c = "B" -> 66
      [] c = "C" -> 67
      [] c = "_" -> 95
      [] c = "a" -> 97
      [] c = "b" -> 98
      [] c = "c" -> 99
      [] c = "e" -> 101
      [] c = "h" -> 104
      [] c = "i" -> 105
      [] c = "k" -> 107
      [] c = "l" -> 108
      [] c = "o" -> 111
      [] c = "r" -> 114
      [] c = "Kelvin" -> 226

IsLetter(c) == c \in {"A", "B", "C", "a", "b", "c", "e", "h", "i", "k", "l", "o", "r"}

ToLowerChar(c) ==
    CASE c = "A" -> "a"
      [] c = "B" -> "b"
      [] c = "C" -> "c"
      [] c = "Kelvin" -> "k"
      [] OTHER -> c

ToLower(s) == [i \in 1..Len(s) |-> ToLowerChar(s[i])]

RECURSIVE TrimLeft(_)
TrimLeft(s) == IF s # <<>> /\ Head(s) = " " THEN TrimLeft(Tail(s)) ELSE s

RECURSIVE TrimRight(_)
TrimRight(s) ==
    IF s # <<>> /\ s[Len(s)] = " " THEN TrimRight(SubSeq(s, 1, Len(s) - 1)) ELSE s

TrimSpace(s) == TrimRight(TrimLeft(s))

\* a < b for Go strings
RECURSIVE StrLess(_, _)
StrLess(a, b) ==
    IF b = <<>> THEN FALSE
    ELSE IF a = <<>> THEN TRUE
    ELSE IF Head(a) # Head(b) THEN Ord(Head(a)) < Ord(Head(b))
    ELSE StrLess(Tail(a), Tail(b))

\* a slip that leaves out the lowercasing
normalizeName_noLower(name) == TrimSpace(name)

normalizeName(name) == ToLower(TrimSpace(name))

\* the {0,31} of personNamePattern
PatternTailMax == 31

\* personNamePattern.MatchString: ^[A-Za-z][A-Za-z_ -]{0,31}$
personNamePattern(s) ==
    /\ Len(s) >= 1
    /\ Len(s) <= 1 + PatternTailMax
    /\ IsLetter(s[1])
    /\ \A i \in 2..Len(s) : IsLetter(s[i]) \/ s[i] \in {"_", " ", "-"}

-----------------------------------------------------------------------------
(* Helpers for maps, sums and sorting *)

EmptyMap == <<>>

MapPut(m, k, v) == [x \in (DOMAIN m) \cup {k} |-> IF x = k THEN v ELSE m[x]]

RECURSIVE SumMap(_)
SumMap(m) ==
    IF DOMAIN m = {} THEN 0
    ELSE LET k == CHOOSE x \in DOMAIN m : TRUE
         IN m[k] + SumMap([x \in (DOMAIN m) \ {k} |-> m[x]])

RECURSIVE SumSeq(_)
SumSeq(s) == IF s = <<>> THEN 0 ELSE Head(s) + SumSeq(Tail(s))

Abs(x) == IF x < 0 THEN -x ELSE x

\* Go's integer division and remainder truncate toward zero
TruncDiv(a, b) == IF a >= 0 THEN a \div b ELSE -((-a) \div b)
TruncMod(a, b) == a - b * TruncDiv(a, b)

\* floor(p * t / d) and the numerator over d of its fractional part, for d > 0,
\* split so that no intermediate product leaves TLC's integer range
FloorMulDiv(p, t, d) == p * (t \div d) + (p * (t % d)) \div d
FracMulDiv(p, t, d) == (p * (t % d)) % d

\* all orders in which a Go map with key set S can be ranged over
Orders(S) ==
    {s \in [1..Cardinality(S) -> S] :
        \A i, j \in 1..Cardinality(S) : i # j => s[i] # s[j]}

\* sort.Strings on a slice without duplicates: the i-th element is the one
\* with i - 1 smaller elements
SortStrings(names) ==
    LET S == {names[i] : i \in 1..Len(names)}
    IN [i \in 1..Cardinality(S) |->
          CHOOSE x \in S : Cardinality({y \in S : StrLess(y, x)}) = i - 1]

\* index of x in the sequence s (x occurs once)
IndexOf(s, x) == CHOOSE i \in 1..Len(s) : s[i] = x

-----------------------------------------------------------------------------
(* Split Engine *)

\* the result of a split function: (shares, err)
SplitOk(shares) == [err |-> "none", shares |-> shares]
SplitErr(kind) == [err |-> kind, shares |-> EmptyMap]

splitEqual_remainderToLast(totalMicroCents, names) ==
    LET n == Len(names)
        base == TruncDiv(totalMicroCents, n)
        rem == TruncMod(totalMicroCents, n)
        sorted == SortStrings(names)
    IN IF n <= 1 THEN SplitErr("InsufficientParticipants")
       ELSE SplitOk([p \in {names[i] : i \in 1..n} |->
                IF n - IndexOf(sorted, p) < rem THEN base + 1 ELSE base])

splitEqual(totalMicroCents, names) ==
    LET n == Len(names)
        base == TruncDiv(totalMicroCents, n)
        rem == TruncMod(totalMicroCents, n)
        sorted == SortStrings(names)
    IN IF n <= 1 THEN SplitErr("InsufficientParticipants")
       ELSE SplitOk([p \in {names[i] : i \in 1..n} |->
                \* i of the code is IndexOf - 1
                IF IndexOf(sorted, p) - 1 < rem THEN base + 1 ELSE base])

\* a percentage point is UnitsPerPercent units of the model
UnitsPerPercent == 2 * 100
\* 100.0 and the tolerance 0.01 of splitByPercent, in units
HundredPercent == 100 * UnitsPerPercent
PercentTolerance == UnitsPerPercent \div 100

\* a slip that leaves the tie-break by name out of the comparator
ItemBefore_fracOnly(x, y) == x.frac > y.frac

\* sort.Slice comparator of splitByPercent and splitByWeights: larger
\* fractional part first, ties by ascending name
ItemBefore(x, y) ==
    IF x.frac = y.frac THEN StrLess(x.name, y.name) ELSE x.frac > y.frac

\* one pass of the insertion sort sort.Slice runs on a short slice: x moves
\* left past every element it is before
RECURSIVE InsertItem(_, _)
InsertItem(s, x) ==
    IF s = <<>> THEN <<x>>
    ELSE IF ItemBefore(x, s[Len(s)])
    THEN InsertItem(SubSeq(s, 1, Len(s) - 1), x) \o <<s[Len(s)]>>
    ELSE s \o <<x>>

\* sort.Slice(items, ...) on the items in the order the map gave them
RECURSIVE SortItems(_)
SortItems(items) ==
    IF items = <<>> THEN <<>>
    ELSE InsertItem(SortItems(SubSeq(items, 1, Len(items) - 1)), items[Len(items)])

\* for i := 0; i < rem; i++ { shares[items[i % len(items)].name]++ }: every
\* name gains one unit for each i of the loop that lands on it
DistributeLoop(shares, sorted, rem) ==
    [name \in DOMAIN shares |->
        shares[name] +
        Cardinality({i \in 0..(rem - 1) : sorted[(i % Len(sorted)) + 1].name = name})]

\* sort the items, shares[it.name] = it.base for every item, then the loop
DistributeRemainder(items, rem) ==
    LET sorted == SortItems(items)
        bases == [name \in {items[i].name : i \in 1..Len(items)} |->
                    (CHOOSE i \in 1..Len(items) : items[i].name = name)]
    IN DistributeLoop([name \in DOMAIN bases |-> items[bases[name]].base],
                      sorted, rem)

\* splitByPercent when the map is ranged over in the given order
splitByPercentIn(totalMicroCents, perc, order) ==
    LET sum == SumMap(perc)
        items == [i \in 1..Len(order) |->
                    [name |-> order[i],
                     base |-> FloorMulDiv(perc[order[i]], totalMicroCents, HundredPercent),
                     frac |-> FracMulDiv(perc[order[i]], totalMicroCents, HundredPercent)]]
        used == SumSeq([i \in 1..Len(items) |-> items[i].base])
        rem == totalMicroCents - used
    IN IF Abs(sum - HundredPercent) > PercentTolerance
       THEN SplitErr("PercentageSumMismatch")
       ELSE SplitOk(DistributeRemainder(items, rem))

\* a slip that leaves out the check of the sum
splitByPercent_noSumCheck(totalMicroCents, perc) ==
    {SplitOk([name \in DOMAIN perc |->
                FloorMulDiv(perc[name], totalMicroCents, HundredPercent)])}

\* splitByPercent: every result some iteration order of the map produces
splitByPercent(totalMicroCents, perc) ==
    {splitByPercentIn(totalMicroCents, perc, order) : order \in Orders(DOMAIN perc)}

\* splitByWeights when the map is ranged over in the given order; skipZero says
\* whether a weight of 0 is skipped
splitByWeightsIn(totalMicroCents, w, order, skipZero) ==
    LET sumW == SumMap(w)
        \* if weight == 0 { continue }
        included == SelectSeq(order, LAMBDA name : ~skipZero \/ w[name] # 0)
        items == [i \in 1..Len(included) |->
                    [name |-> included[i],
                     base |-> FloorMulDiv(w[included[i]], totalMicroCents, sumW),
                     frac |-> FracMulDiv(w[included[i]], totalMicroCents, sumW)]]
        used == SumSeq([i \in 1..Len(items) |-> items[i].base])
        rem == totalMicroCents - used
    IN IF \E name \in DOMAIN w : w[name] < 0 THEN SplitErr("NegativeWeight")
       ELSE IF sumW <= 0 THEN SplitErr("NonPositiveWeightSum")
       ELSE SplitOk(DistributeRemainder(items, rem))

\* a slip that keeps the entries of weight 0
splitByWeights_keepZero(totalMicroCents, w) ==
    {splitByWeightsIn(totalMicroCents, w, order, FALSE) : order \in Orders(DOMAIN w)}

\* splitByWeights: every result some iteration order of the map produces
splitByWeights(totalMicroCents, w) ==
    {splitByWeightsIn(totalMicroCents, w, order, TRUE) : order \in Orders(DOMAIN w)}

-----------------------------------------------------------------------------
(* Debt Graph *)

\* the result of a graph mutation: (err, nodes after the call)
GraphResult(kind, g) == [err |-> kind, nodes |-> g]

addNode(g, node) ==
    LET n == TrimSpace(node)
    IN IF n = <<>> THEN GraphResult("EmptyNode", g)
       ELSE IF n \in DOMAIN g THEN GraphResult("NodeExists", g)
       ELSE GraphResult("none", MapPut(g, n, <<>>))

\* a slip that takes a target without outgoing edges for a missing node
addEdge_targetNeedsEdges(g, from, to, metadata) ==
    IF from \notin DOMAIN g THEN GraphResult("UnknownNode", g)
    ELSE IF to \notin DOMAIN g \/ g[to] = <<>> THEN GraphResult("UnknownNode", g)
    ELSE GraphResult("none",
            [g EXCEPT ![from] = Append(@, [To |-> to, Metadata |-> metadata])])

\* a slip that checks the source node only
addEdge_toUnchecked(g, from, to, metadata) ==
    IF from \notin DOMAIN g THEN GraphResult("UnknownNode", g)
    ELSE GraphResult("none",
            [g EXCEPT ![from] = Append(@, [To |-> to, Metadata |-> metadata])])

\* a slip that adds the amount to an edge the pair already has
addEdge_coalesce(g, from, to, metadata) ==
    IF from \notin DOMAIN g THEN GraphResult("UnknownNode", g)
    ELSE IF to \notin DOMAIN g THEN GraphResult("UnknownNode", g)
    ELSE IF \E i \in 1..Len(g[from]) : g[from][i].To = to
    THEN LET i == CHOOSE i \in 1..Len(g[from]) : g[from][i].To = to
         IN GraphResult("none",
               [g EXCEPT ![from][i].Metadata.AmountInMicroCents =
                            @ + metadata.AmountInMicroCents])
    ELSE GraphResult("none",
            [g EXCEPT ![from] = Append(@, [To |-> to, Metadata |-> metadata])])

addEdge(g, from, to, metadata) ==
    IF from \notin DOMAIN g THEN GraphResult("UnknownNode", g)
    ELSE IF to \notin DOMAIN g THEN GraphResult("UnknownNode", g)
    ELSE GraphResult("none",
            [g EXCEPT ![from] = Append(@, [To |-> to, Metadata |-> metadata])])

-----------------------------------------------------------------------------
(* Group state and the result of a call *)

\* the fields of Group that Group.mu guards
GroupState(p, g, ex, ctr, sh) ==
    [people |-> p, nodes |-> g, expenses |-> ex, expenseIdCounter |-> ctr,
     shareLog |-> sh]

Current == GroupState(people, nodes, expenses, expenseIdCounter, shareLog)

\* what a call leaves behind: the error it returns ("none" for nil) and the
\* group state at its return
Outcome(kind, st) == [err |-> kind, state |-> st]

-----------------------------------------------------------------------------
(* Membership Store *)

addPerson_noNode(st, name) ==
    LET displayName == TrimSpace(name)
        key == normalizeName(displayName)
    IN IF ~personNamePattern(displayName) THEN Outcome("InvalidName", st)
       ELSE IF key \in DOMAIN st.people THEN Outcome("DuplicateMember", st)
       ELSE Outcome("none",
                [st EXCEPT !.people = MapPut(@, key, [Name |-> displayName])])

\* AddPerson that stores the new spelling before it reports the duplicate
addPerson_overwrites(st, name) ==
    LET displayName == TrimSpace(name)
        key == normalizeName(displayName)
        r == addNode(st.nodes, key)
    IN IF ~personNamePattern(displayName) THEN Outcome("InvalidName", st)
       ELSE IF key \in DOMAIN st.people
            THEN Outcome("DuplicateMember",
                     [st EXCEPT !.people = MapPut(@, key, [Name |-> displayName])])
       ELSE IF r.err # "none" THEN Outcome(r.err, st)
       ELSE Outcome("none",
                [st EXCEPT !.nodes = r.nodes,
                           !.people = MapPut(@, key, [Name |-> displayName])])

\* Group.AddPerson on the group state st
addPerson(st, name) ==
    LET displayName == TrimSpace(name)
        key == normalizeName(displayName)
        r == addNode(st.nodes, key)
    IN IF ~personNamePattern(displayName) THEN Outcome("InvalidName", st)
       ELSE IF key \in DOMAIN st.people THEN Outcome("DuplicateMember", st)
       ELSE IF r.err # "none" THEN Outcome(r.err, st)
       ELSE Outcome("none",
                [st EXCEPT !.nodes = r.nodes,
                           !.people = MapPut(@, key, [Name |-> displayName])])

displayName(st, key) ==
    IF key \in DOMAIN st.people THEN st.people[key].Name ELSE key

-----------------------------------------------------------------------------
(* Expense Ingestion *)

validateSplitMethod(splitMethod) ==
    IF splitMethod \in {"equal", "percentage", "weights"} THEN "none"
    ELSE "InvalidSplitMethod"

\* the loop of normalizeSplitMap, ranging over the input's keys in the given
\* order; out is the map built so far
RECURSIVE normalizeSplitLoop(_, _, _)
normalizeSplitLoop(input, order, out) ==
    IF order = <<>> THEN [err |-> "none", map |-> out]
    ELSE LET name == Head(order)
             key == normalizeName(name)
         IN IF key = <<>> THEN [err |-> "EmptySplitName", map |-> EmptyMap]
            ELSE IF key \in DOMAIN out
            THEN [err |-> "DuplicateSplitName", map |-> EmptyMap]
            ELSE normalizeSplitLoop(input, Tail(order), MapPut(out, key, input[name]))

\* normalizeSplitMap: every result some iteration order of the input produces
normalizeSplitMap(input) ==
    IF DOMAIN input = {} THEN {[err |-> "none", map |-> EmptyMap]}
    ELSE {normalizeSplitLoop(input, order, EmptyMap) : order \in Orders(DOMAIN input)}

\* a slip that leaves out the "skip this" of the payer
RECURSIVE addEdgesLoop_payerIncluded(_, _, _, _, _)
addEdgesLoop_payerIncluded(g, order, paidByKey, shares, id) ==
    IF order = <<>> THEN GraphResult("none", g)
    ELSE LET fromKey == Head(order)
         IN IF fromKey \notin DOMAIN shares
            THEN addEdgesLoop_payerIncluded(g, Tail(order), paidByKey, shares, id)
            ELSE LET r == addEdge(g, fromKey, paidByKey,
                                  [AmountInMicroCents |-> shares[fromKey],
                                   ExpenseID |-> id])
                 IN IF r.err # "none" THEN r
                    ELSE addEdgesLoop_payerIncluded(r.nodes, Tail(order), paidByKey,
                                                    shares, id)

\* a slip that leaves out the "no share for this person" skip: the missing
\* share reads as 0
RECURSIVE addEdgesLoop_everyMember(_, _, _, _, _)
addEdgesLoop_everyMember(g, order, paidByKey, shares, id) ==
    IF order = <<>> THEN GraphResult("none", g)
    ELSE LET fromKey == Head(order)
         IN IF fromKey = paidByKey
            THEN addEdgesLoop_everyMember(g, Tail(order), paidByKey, shares, id)
            ELSE LET r == addEdge(g, fromKey, paidByKey,
                                  [AmountInMicroCents |->
                                      IF fromKey \in DOMAIN shares
                                      THEN shares[fromKey] ELSE 0,
                                   ExpenseID |-> id])
                 IN IF r.err # "none" THEN r
                    ELSE addEdgesLoop_everyMember(r.nodes, Tail(order), paidByKey,
                                                  shares, id)

\* a slip that turns the edge around: from the payer to the sharer
RECURSIVE addEdgesLoop_reversed(_, _, _, _, _)
addEdgesLoop_reversed(g, order, paidByKey, shares, id) ==
    IF order = <<>> THEN GraphResult("none", g)
    ELSE LET fromKey == Head(order)
         IN IF fromKey = paidByKey \/ fromKey \notin DOMAIN shares
            THEN addEdgesLoop_reversed(g, Tail(order), paidByKey, shares, id)
            ELSE LET r == addEdge(g, paidByKey, fromKey,
                                  [AmountInMicroCents |-> shares[fromKey],
                                   ExpenseID |-> id])
                 IN IF r.err # "none" THEN r
                    ELSE addEdgesLoop_reversed(r.nodes, Tail(order), paidByKey,
                                               shares, id)

\* the "add edges" loop of AddExpense, ranging over g.people in the given
\* order; it returns at the first addEdge error with the edges added so far
RECURSIVE addEdgesLoop(_, _, _, _, _)
addEdgesLoop(g, order, paidByKey, shares, id) ==
    IF order = <<>> THEN GraphResult("none", g)
    ELSE LET fromKey == Head(order)
         IN IF fromKey = paidByKey \/ fromKey \notin DOMAIN shares
            THEN addEdgesLoop(g, Tail(order), paidByKey, shares, id)
            ELSE LET r == addEdge(g, fromKey, paidByKey,
                                  [AmountInMicroCents |-> shares[fromKey],
                                   ExpenseID |-> id])
                 IN IF r.err # "none" THEN r
                    ELSE addEdgesLoop(r.nodes, Tail(order), paidByKey, shares, id)

\* the switch on e.SplitMethod; names are the keys of g.people in some order.
\* The results are those of every iteration order inside the split function.
computeShares(e, names) ==
    CASE e.SplitMethod = "equal" -> {splitEqual(e.TotalMicroCents, names)}
      [] e.SplitMethod = "percentage" ->
            splitByPercent(e.TotalMicroCents, e.SplitPercentages)
      [] e.SplitMethod = "weights" ->
            splitByWeights(e.TotalMicroCents, e.SplitWeights)

\* the graph/people consistency check before the commit
outOfSync(st) ==
    \/ Cardinality(DOMAIN st.people) # Cardinality(DOMAIN st.nodes)
    \/ \E name \in DOMAIN st.people : name \notin DOMAIN st.nodes
    \/ \E name \in DOMAIN st.nodes : name \notin DOMAIN st.people

\* a slip that takes the next id and does not store the counter
commitExpense_counterNotStored(st, e, paidByKey, shares, order) ==
    LET id == st.expenseIdCounter + 1
        stored == [ID |-> id,
                   TotalMicroCents |-> e.TotalMicroCents,
                   PaidBy |-> e.PaidBy,
                   Description |-> e.Description,
                   SplitMethod |-> e.SplitMethod,
                   SplitPercentages |-> e.SplitPercentages,
                   SplitWeights |-> e.SplitWeights]
        r == addEdgesLoop(st.nodes, order, paidByKey, shares, id)
    IN Outcome(r.err,
               [st EXCEPT !.expenses = MapPut(@, id, stored),
                          !.shareLog = MapPut(@, id, shares),
                          !.nodes = r.nodes])

\* a commit that takes the id before it increments the counter
commitExpense_idBeforeIncrement(st, e, paidByKey, shares, order) ==
    LET id == st.expenseIdCounter
        stored == [ID |-> id,
                   TotalMicroCents |-> e.TotalMicroCents,
                   PaidBy |-> e.PaidBy,
                   Description |-> e.Description,
                   SplitMethod |-> e.SplitMethod,
                   SplitPercentages |-> e.SplitPercentages,
                   SplitWeights |-> e.SplitWeights]
        r == addEdgesLoop(st.nodes, order, paidByKey, shares, id)
    IN Outcome(r.err,
               [st EXCEPT !.expenseIdCounter = id + 1,
                          !.expenses = MapPut(@, id, stored),
                          !.shareLog = MapPut(@, id, shares),
                          !.nodes = r.nodes])

\* g.expenseIdCounter++; e.ID = ...; g.expenses[e.ID] = e; then the edge loop
commitExpense(st, e, paidByKey, shares, order) ==
    LET id == st.expenseIdCounter + 1
        stored == [ID |-> id,
                   TotalMicroCents |-> e.TotalMicroCents,
                   PaidBy |-> e.PaidBy,
                   Description |-> e.Description,
                   SplitMethod |-> e.SplitMethod,
                   SplitPercentages |-> e.SplitPercentages,
                   SplitWeights |-> e.SplitWeights]
        r == addEdgesLoop(st.nodes, order, paidByKey, shares, id)
    IN Outcome(r.err,
               [st EXCEPT !.expenseIdCounter = id,
                          !.expenses = MapPut(@, id, stored),
                          !.shareLog = MapPut(@, id, shares),
                          !.nodes = r.nodes])

\* a slip that checks only the map of the chosen split method
addExpenseLocked_chosenMapOnly(st, e, np, nw) ==
    LET paidByKey == normalizeName(e.PaidBy)
        e2 == [e EXCEPT !.PaidBy = st.people[paidByKey].Name,
                        !.SplitPercentages = np.map,
                        !.SplitWeights = nw.map]
        splits == IF e.SplitMethod = "equal"
                  THEN UNION {computeShares(e2, names) :
                                 names \in Orders(DOMAIN st.people)}
                  ELSE computeShares(e2, <<>>)
    IN IF Cardinality(DOMAIN st.people) <= 1 THEN {Outcome("InsufficientGroupSize", st)}
       ELSE IF paidByKey \notin DOMAIN st.people THEN {Outcome("UnknownPayer", st)}
       ELSE IF e.SplitMethod = "percentage" /\ np.err # "none" THEN {Outcome(np.err, st)}
       ELSE IF /\ e.SplitMethod = "percentage"
               /\ \E name \in DOMAIN np.map : name \notin DOMAIN st.people
       THEN {Outcome("UnknownParticipant", st)}
       ELSE IF e.SplitMethod = "weights" /\ nw.err # "none" THEN {Outcome(nw.err, st)}
       ELSE IF /\ e.SplitMethod = "weights"
               /\ \E name \in DOMAIN nw.map : name \notin DOMAIN st.people
       THEN {Outcome("UnknownParticipant", st)}
       ELSE UNION {
              IF sh.err # "none" THEN {Outcome(sh.err, st)}
              ELSE IF outOfSync(st) THEN {Outcome("InvariantViolation", st)}
              ELSE {commitExpense(st, e2, paidByKey, sh.shares, order) :
                        order \in Orders(DOMAIN st.people)}
              : sh \in splits}

\* the part of AddExpense under g.mu, for one result of each normalizeSplitMap
\* call; e.Description is already trimmed.  The outcomes are those of every
\* iteration order of g.people, for the names slice and for the edge loop.
addExpenseLocked(st, e, np, nw) ==
    LET paidByKey == normalizeName(e.PaidBy)
        e2 == [e EXCEPT !.PaidBy = st.people[paidByKey].Name,
                        !.SplitPercentages = np.map,
                        !.SplitWeights = nw.map]
        \* only splitEqual reads the names slice
        splits == IF e.SplitMethod = "equal"
                  THEN UNION {computeShares(e2, names) :
                                 names \in Orders(DOMAIN st.people)}
                  ELSE computeShares(e2, <<>>)
    IN IF Cardinality(DOMAIN st.people) <= 1 THEN {Outcome("InsufficientGroupSize", st)}
       ELSE IF paidByKey \notin DOMAIN st.people THEN {Outcome("UnknownPayer", st)}
       ELSE IF np.err # "none" THEN {Outcome(np.err, st)}
       ELSE IF \E name \in DOMAIN np.map : name \notin DOMAIN st.people
       THEN {Outcome("UnknownParticipant", st)}
       ELSE IF nw.err # "none" THEN {Outcome(nw.err, st)}
       ELSE IF \E name \in DOMAIN nw.map : name \notin DOMAIN st.people
       THEN {Outcome("UnknownParticipant", st)}
       ELSE UNION {
              IF sh.err # "none" THEN {Outcome(sh.err, st)}
              ELSE IF outOfSync(st) THEN {Outcome("InvariantViolation", st)}
              ELSE {commitExpense(st, e2, paidByKey, sh.shares, order) :
                        order \in Orders(DOMAIN st.people)}
              : sh \in splits}

\* a slip that lets a total of 0 pass
preLockError_zeroTotal(e) ==
    IF e.TotalMicroCents < 0 THEN "NonPositiveTotal"
    ELSE IF TrimSpace(e.Description) = <<>> THEN "EmptyDescription"
    ELSE validateSplitMethod(e.SplitMethod)

\* the checks of AddExpense before g.mu.Lock(): the error they return, "none"
\* when they pass
preLockError(e) ==
    IF e.TotalMicroCents <= 0 THEN "NonPositiveTotal"
    ELSE IF TrimSpace(e.Description) = <<>> THEN "EmptyDescription"
    ELSE validateSplitMethod(e.SplitMethod)

\* a slip that validates the trimmed description and stores the one given
addExpense_descriptionKept(st, e) ==
    LET desc == TrimSpace(e.Description)
    IN IF preLockError(e) # "none" THEN {Outcome(preLockError(e), st)}
       ELSE UNION {addExpenseLocked(st, e, np, nw) :
                np \in normalizeSplitMap(e.SplitPercentages),
                nw \in normalizeSplitMap(e.SplitWeights)}

\* Group.AddExpense on the group state st: the set of its possible outcomes
addExpense(st, e) ==
    LET desc == TrimSpace(e.Description)
    IN IF preLockError(e) # "none" THEN {Outcome(preLockError(e), st)}
       ELSE UNION {addExpenseLocked(st, [e EXCEPT !.Description = desc], np, nw) :
                np \in normalizeSplitMap(e.SplitPercentages),
                nw \in normalizeSplitMap(e.SplitWeights)}

-----------------------------------------------------------------------------
(* Settlement Calculator *)

\* cents = float64(sum-sum2) / 1000.0
MicroCentsPerCent == 1000
\* return cents / 100.0
CentsPerDollar == 100

\* sum of the amounts of the edges from -> to
edgeSum(st, from, to) ==
    IF from \notin DOMAIN st.nodes THEN 0
    ELSE LET edges == st.nodes[from]
         IN SumSeq([i \in 1..Len(edges) |->
                IF edges[i].To = to THEN edges[i].Metadata.AmountInMicroCents
                ELSE 0])

\* a slip that forgets the edges of the opposite direction
getMoneyTobePaid_gross(st, from, to) ==
    LET sum == edgeSum(st, from, to)
    IN IF sum < MicroCentsPerCent THEN 0 ELSE sum

\* a slip that leaves out "if cents < 1 { cents = 0 }"
getMoneyTobePaid_noCutoff(st, from, to) ==
    LET sum == edgeSum(st, from, to)
        sum2 == edgeSum(st, to, from)
    IN sum - sum2

\* Group.getMoneyTobePaid.  The float64 dollar amount it returns is
\* represented by the integer m that stands for
\* m / (MicroCentsPerCent * CentsPerDollar) dollars: the code divides the
\* integer sum - sum2 by 1000.0 and by 100.0 and rounds nothing.
getMoneyTobePaid(st, from, to) ==
    LET sum == edgeSum(st, from, to)
        sum2 == edgeSum(st, to, from)
    IN \* if cents < 1 { cents = 0 }
       IF sum - sum2 < MicroCentsPerCent THEN 0 ELSE sum - sum2

\* fmt.Sprintf("%s to pay %s", displayName(from), displayName(to))
detailKey(st, from, to) ==
    displayName(st, from) \o <<" ", "t", "o", " ", "p", "a", "y", " ">>
        \o displayName(st, to)

\* Group.GetExpenseDetails: every map some iteration order can return (two
\* pairs that render to the same key overwrite each other, the last one wins)
GetExpenseDetails(st) ==
    LET pos == {p \in (DOMAIN st.nodes) \X (DOMAIN st.nodes) :
                    p[1] # p[2] /\ getMoneyTobePaid(st, p[1], p[2]) > 0}
        keys == {detailKey(st, p[1], p[2]) : p \in pos}
        cand(k) == {getMoneyTobePaid(st, p[1], p[2]) :
                        p \in {q \in pos : detailKey(st, q[1], q[2]) = k}}
    IN {f \in [keys -> UNION {cand(k) : k \in keys}] : \A k \in keys : f[k] \in cand(k)}

-----------------------------------------------------------------------------
(* Listing and export *)

\* a slip that compares the names as they are
GetPeople_byteOrder(st) ==
    LET S == {st.people[k].Name : k \in DOMAIN st.people}
    IN [i \in 1..Cardinality(S) |->
          CHOOSE x \in S : Cardinality({y \in S : StrLess(y, x)}) = i - 1]

\* Group.GetPeople: display names ordered by their lowercased form
GetPeople(st) ==
    LET S == {st.people[k].Name : k \in DOMAIN st.people}
    IN [i \in 1..Cardinality(S) |->
          CHOOSE x \in S :
            Cardinality({y \in S : StrLess(ToLower(y), ToLower(x))}) = i - 1]

Size(st) == Cardinality(DOMAIN st.people)

Digit(d) ==
    CASE d = 0 -> "0" [] d = 1 -> "1" [] d = 2 -> "2" [] d = 3 -> "3"
      [] d = 4 -> "4" [] d = 5 -> "5" [] d = 6 -> "6" [] d = 7 -> "7"
      [] d = 8 -> "8" [] d = 9 -> "9"

\* decimal digits of n >= 0
RECURSIVE DecStr(_)
DecStr(n) == IF n < 10 THEN <<Digit(n)>> ELSE DecStr(n \div 10) \o <<Digit(n % 10)>>

\* roundedCents := (micro + 500) / 1000
HalfCent == 500

\* formatMicroCentsAsDollars for micro >= 0: "$%.2f" of roundedCents / 100.0
formatMicroCentsAsDollars(micro) ==
    LET roundedCents == TruncDiv(micro + HalfCent, MicroCentsPerCent)
    IN <<"$">> \o DecStr(roundedCents \div CentsPerDollar) \o <<".">>
         \o <<Digit((roundedCents % CentsPerDollar) \div 10),
              Digit((roundedCents % CentsPerDollar) % 10)>>

\* the comparator of the edge keys: by from, then by to
EdgeKeyBefore(x, y) ==
    IF x[1] = y[1] THEN StrLess(x[2], y[2]) ELSE StrLess(x[1], y[1])

\* a slip that exports the net of the two directions instead of the sum of one
GetGraphDOT_net(st) ==
    LET names == SortStrings(CHOOSE s \in Orders(DOMAIN st.people) : TRUE)
        sumKeys == {p \in (DOMAIN st.nodes) \X (DOMAIN st.nodes) :
                       \E i \in 1..Len(st.nodes[p[1]]) : st.nodes[p[1]][i].To = p[2]}
        keys == [i \in 1..Cardinality(sumKeys) |->
                    CHOOSE x \in sumKeys :
                      Cardinality({y \in sumKeys : EdgeKeyBefore(y, x)}) = i - 1]
        nodeLines == [i \in 1..Len(names) |->
                        [kind |-> "node", key |-> names[i],
                         label |-> displayName(st, names[i])]]
        net(k) == edgeSum(st, k[1], k[2]) - edgeSum(st, k[2], k[1])
        shown == SelectSeq(keys, LAMBDA k : net(k) > 0)
        edgeLines == [i \in 1..Len(shown) |->
                        [kind |-> "edge", from |-> shown[i][1], to |-> shown[i][2],
                         label |-> formatMicroCentsAsDollars(net(shown[i]))]]
    IN nodeLines \o edgeLines

\* a slip that leaves out "if micro <= 0 { continue }"
GetGraphDOT_keepNonPositive(st) ==
    LET names == SortStrings(CHOOSE s \in Orders(DOMAIN st.people) : TRUE)
        sumKeys == {p \in (DOMAIN st.nodes) \X (DOMAIN st.nodes) :
                       \E i \in 1..Len(st.nodes[p[1]]) : st.nodes[p[1]][i].To = p[2]}
        keys == [i \in 1..Cardinality(sumKeys) |->
                    CHOOSE x \in sumKeys :
                      Cardinality({y \in sumKeys : EdgeKeyBefore(y, x)}) = i - 1]
        nodeLines == [i \in 1..Len(names) |->
                        [kind |-> "node", key |-> names[i],
                         label |-> displayName(st, names[i])]]
        edgeLines == [i \in 1..Len(keys) |->
                        [kind |-> "edge", from |-> keys[i][1], to |-> keys[i][2],
                         label |-> formatMicroCentsAsDollars(
                                      Abs(edgeSum(st, keys[i][1], keys[i][2])))]]
    IN nodeLines \o edgeLines

\* Group.GetGraphDOT: the lines of the text between "digraph ... {" and "}",
\* one record per line: the node declarations, then the edge declarations
GetGraphDOT(st) ==
    LET names == SortStrings(CHOOSE s \in Orders(DOMAIN st.people) : TRUE)
        \* the keys of edgeSums: the pairs with at least one edge
        sumKeys == {p \in (DOMAIN st.nodes) \X (DOMAIN st.nodes) :
                       \E i \in 1..Len(st.nodes[p[1]]) : st.nodes[p[1]][i].To = p[2]}
        keys == [i \in 1..Cardinality(sumKeys) |->
                    CHOOSE x \in sumKeys :
                      Cardinality({y \in sumKeys : EdgeKeyBefore(y, x)}) = i - 1]
        nodeLines == [i \in 1..Len(names) |->
                        [kind |-> "node", key |-> names[i],
                         label |-> displayName(st, names[i])]]
        \* if micro <= 0 { continue }
        shown == SelectSeq(keys, LAMBDA k : edgeSum(st, k[1], k[2]) > 0)
        edgeLines == [i \in 1..Len(shown) |->
                        [kind |-> "edge", from |-> shown[i][1], to |-> shown[i][2],
                         label |-> formatMicroCentsAsDollars(
                                      edgeSum(st, shown[i][1], shown[i][2]))]]
    IN nodeLines \o edgeLines

-----------------------------------------------------------------------------
(* Inputs of the exploration *)

\* names given to AddPerson: two spellings of the key "a", the keys "b" and
\* "k", and five names the pattern rejects, one of them (the Kelvin sign) with
\* the key "k"
PersonNames ==
    {<<"A">>, <<" ", "a", " ">>, <<"B">>, <<"k">>,
     <<"1">>, <<" ">>, <<"a", "1">>, [i \in 1..33 |-> "a"], <<"Kelvin">>}

Pct(whole, halfHundredths) == whole * UnitsPerPercent + halfHundredths

NoMap == EmptyMap
Map2(k1, v1, k2, v2) == MapPut(MapPut(EmptyMap, k1, v1), k2, v2)
Map3(k1, v1, k2, v2, k3, v3) == MapPut(Map2(k1, v1, k2, v2), k3, v3)

Expense(total, paidBy, description, method, percentages, weights) ==
    [TotalMicroCents |-> total, PaidBy |-> paidBy, Description |-> description,
     SplitMethod |-> method, SplitPercentages |-> percentages,
     SplitWeights |-> weights]

\* expenses that pass every check when their payer and participants are members
ValidExpenses(paidBy) ==
    {Expense(1500, paidBy, <<" ", "x", " ">>, "equal", NoMap, NoMap),
     \* 50.005 % + 50 %: within the tolerance, above 100
     Expense(100000, paidBy, <<"x">>, "percentage",
             Map2(<<"A">>, Pct(50, 1), <<"B">>, Pct(50, 0)), NoMap),
     \* -10 % + 110 %
     Expense(100000, paidBy, <<"x">>, "percentage",
             Map2(<<"A">>, Pct(-10, 0), <<"B">>, Pct(110, 0)), NoMap),
     Expense(1500, paidBy, <<"x">>, "weights", NoMap, Map2(<<"A">>, 0, <<"B">>, 1))}

\* expenses that some check rejects in every group state
InvalidExpenses ==
    {Expense(0, <<"A">>, <<"x">>, "equal", NoMap, NoMap),
     Expense(1500, <<"A">>, <<" ">>, "equal", NoMap, NoMap),
     Expense(1500, <<"A">>, <<"x">>, "shares", NoMap, NoMap),
     Expense(1500, <<"1">>, <<"x">>, "equal", NoMap, NoMap),
     \* both maps are checked whatever the method
     Expense(1500, <<"A">>, <<"x">>, "equal", NoMap, Map2(<<"1">>, 1, <<"B">>, 1)),
     Expense(1000, <<"A">>, <<"x">>, "percentage",
             Map2(<<"A">>, Pct(60, 0), <<"B">>, Pct(30, 0)), NoMap),
     Expense(1000, <<"A">>, <<"x">>, "percentage",
             Map2(<<"A">>, Pct(50, 0), <<" ", "a">>, Pct(50, 0)), NoMap),
     Expense(1000, <<"A">>, <<"x">>, "percentage",
             Map3(<<" ">>, Pct(0, 0), <<"A">>, Pct(50, 0), <<"a">>, Pct(50, 0)), NoMap),
     Expense(1000, <<"A">>, <<"x">>, "weights", NoMap, Map2(<<"A">>, -1, <<"B">>, 2)),
     Expense(1000, <<"A">>, <<"x">>, "weights", NoMap, Map2(<<"A">>, 0, <<"B">>, 0))}

\* the expenses given to AddExpense, paid by the key "a" or the key "b"
ExpenseInputs ==
    ValidExpenses(<<"A">>) \cup ValidExpenses(<<" ", "b">>) \cup InvalidExpenses

-----------------------------------------------------------------------------
(* The group as a state machine: one action per call of an exported method *)

NoCall == [fn |-> "none", total |-> 0, arg |-> <<>>, result |-> SplitErr("none")]

\* the goroutines of ConcSpec and the three mutexes
Goroutines == {1, 2}
Locks == {"registry", "G", "H"}

\* a goroutine that is in no call
Idle ==
    [op |-> "none", pc |-> "idle", lock |-> "none", arg |-> <<>>, start |-> <<>>,
     plan |-> <<>>, todo |-> <<>>, seen |-> <<>>, err |-> "none"]

\* no mutex held, no call running, no group registered
ConcInit ==
    /\ mu = [l \in Locks |-> 0]
    /\ goroutines = [t \in Goroutines |-> Idle]
    /\ store = EmptyMap
    /\ created = EmptyMap

\* the history of the last call: which method, whether it returned an error
\* ("none" for nil, "error" for any error value), and its result
Returned(op, kind, out) ==
    [op |-> op, err |-> IF kind = "none" THEN "none" ELSE "error", out |-> out]

Init ==
    /\ people = EmptyMap
    /\ nodes = EmptyMap
    /\ expenses = EmptyMap
    /\ expenseIdCounter = 0
    /\ shareLog = EmptyMap
    /\ last = Returned("NewGroup", "none", <<>>)
    /\ call = NoCall
    /\ ConcInit

SetGroup(st) ==
    /\ people' = st.people
    /\ nodes' = st.nodes
    /\ expenses' = st.expenses
    /\ expenseIdCounter' = st.expenseIdCounter
    /\ shareLog' = st.shareLog

\* a call of Group.AddPerson with one of the names; out is the error it returns
AddPersonOf(names) ==
    \E name \in names :
        LET r == addPerson(Current, name)
        IN /\ SetGroup(r.state)
           /\ last' = Returned("AddPerson", r.err, r.err)
           /\ UNCHANGED <<call, concVars>>

\* a call of Group.AddExpense with one of the inputs
AddExpenseOf(inputs) ==
    \E e \in inputs :
        \E r \in addExpense(Current, e) :
            /\ r.state.expenseIdCounter <= MaxExpenses
            /\ SetGroup(r.state)
            \* out is e.ID after the call
            /\ last' = Returned("AddExpense", r.err,
                                IF r.err = "none" THEN r.state.expenseIdCounter ELSE 0)
            /\ UNCHANGED <<call, concVars>>

AddPerson == AddPersonOf(PersonNames)

AddExpense == AddExpenseOf(ExpenseInputs)

CallGetExpenseDetails ==
    \E out \in GetExpenseDetails(Current) :
        /\ last' = Returned("GetExpenseDetails", "none", out)
        /\ UNCHANGED <<groupVars, call, concVars>>

CallGetGraphDOT ==
    /\ last' = Returned("GetGraphDOT", "none", GetGraphDOT(Current))
    /\ UNCHANGED <<groupVars, call, concVars>>

CallGetPeople ==
    /\ last' = Returned("GetPeople", "none", GetPeople(Current))
    /\ UNCHANGED <<groupVars, call, concVars>>

Next ==
    \/ AddPerson
    \/ AddExpense
    \/ CallGetExpenseDetails
    \/ CallGetGraphDOT
    \/ CallGetPeople

Spec == Init /\ [][Next]_vars

-----------------------------------------------------------------------------
(* The group "trip" of the README and of the tests: Alice, Bob and Charlie  *)
(* and their $100.00 expenses                                               *)

Alice == <<"A", "l", "i", "c", "e">>
Bob == <<"B", "o", "b">>
Charlie == <<"C", "h", "a", "r", "l", "i", "e">>

ScenarioNames == {Alice, Bob, Charlie}

\* $100.00 in micro-cents
HundredDollars == 100 * CentsPerDollar * MicroCentsPerCent

ScenarioExpenses(paidBy) ==
    {Expense(HundredDollars, paidBy, <<"x">>, "equal", NoMap, NoMap),
     Expense(HundredDollars, paidBy, <<"x">>, "percentage",
             Map3(Alice, Pct(20, 0), Bob, Pct(40, 0), Charlie, Pct(40, 0)), NoMap),
     Expense(HundredDollars, paidBy, <<"x">>, "weights", NoMap,
             Map3(Alice, 0, Bob, 4, Charlie, 4)),
     \* a weight map that does not name Alice
     Expense(HundredDollars, paidBy, <<"x">>, "weights", NoMap,
             Map2(Bob, 1, Charlie, 2))}

ScenarioAddPerson == AddPersonOf(ScenarioNames)

ScenarioAddExpense ==
    AddExpenseOf(ScenarioExpenses(Alice) \cup ScenarioExpenses(<<"b", "o", "b">>))

ScenarioNext ==
    \/ ScenarioAddPerson
    \/ ScenarioAddExpense
    \/ CallGetExpenseDetails
    \/ CallGetGraphDOT
    \/ CallGetPeople

ScenarioSpec == Init /\ [][ScenarioNext]_vars

-----------------------------------------------------------------------------
(* Group registry: the functions on groupMgr.store, each on a store st *)

\* groupNamePattern ^[A-Za-z][A-Za-z_-]{0,31}$
groupNamePattern(s) ==
    /\ Len(s) >= 1
    /\ Len(s) <= 1 + PatternTailMax
    /\ IsLetter(s[1])
    /\ \A i \in 2..Len(s) : IsLetter(s[i]) \/ s[i] \in {"_", "-"}

\* a slip that leaves out the check of the name
NewGroup_unchecked(name) == [err |-> "none", group |-> [Name |-> TrimSpace(name)]]

\* NewGroup: the group it builds has no member, no expense and no edge
NewGroup(name) ==
    LET n == TrimSpace(name)
    IN IF ~groupNamePattern(n) THEN [err |-> "InvalidName", group |-> <<>>]
       ELSE [err |-> "none", group |-> [Name |-> n]]

RegistryResult(kind, st) == [err |-> kind, store |-> st]

\* Create: the lookup of the key, then NewGroup, then the store
Create(st, name) ==
    LET display == TrimSpace(name)
        key == normalizeName(display)
        new == NewGroup(display)
    IN IF key \in DOMAIN st THEN RegistryResult("GroupExists", st)
       ELSE IF new.err # "none" THEN RegistryResult(new.err, st)
       ELSE RegistryResult("none", MapPut(st, key, new.group))

\* Get: the group and whether it exists; the key is normalizeName(name)
Get(st, name) ==
    LET key == normalizeName(name)
    IN IF key \in DOMAIN st THEN [group |-> st[key], exists |-> TRUE]
       ELSE [group |-> <<>>, exists |-> FALSE]

\* List: the names of the groups ordered by their lowercased form
List(st) ==
    LET S == {st[k].Name : k \in DOMAIN st}
    IN [i \in 1..Cardinality(S) |->
          CHOOSE x \in S :
            Cardinality({y \in S : StrLess(ToLower(y), ToLower(x))}) = i - 1]

\* ListGroups: the groups in the order of List
ListGroups(st) ==
    [i \in 1..Len(List(st)) |-> [Name |-> List(st)[i]]]

\* Delete: whether it deleted ("none") or returned false, and the store
Delete(st, name) ==
    LET n == TrimSpace(name)
        key == normalizeName(n)
    IN IF n = <<>> THEN RegistryResult("false", st)
       ELSE IF key \notin DOMAIN st THEN RegistryResult("false", st)
       ELSE RegistryResult("none", [k \in (DOMAIN st) \ {key} |-> st[k]])

-----------------------------------------------------------------------------
(* Goroutines calling into one group, another group and the registry.  A    *)
(* call is a sequence of steps: Lock, the reads and writes of the body one  *)
(* at a time, Unlock (the deferred Unlock runs at the return).              *)

\* sync.Mutex.Lock returns only when nobody holds the mutex
canLock_always(m, l) == TRUE

canLock(m, l) == m[l] = 0

\* the deferred Unlock that never runs
unlock_kept(m, l) == m

\* sync.Mutex.Unlock
unlock(m, l) == [m EXCEPT ![l] = 0]

\* names and expenses the goroutines pass
ConcNames == {<<"A">>, <<"B">>, <<"k">>}
ConcExpenses ==
    {Expense(1500, <<"A">>, <<"x">>, "equal", NoMap, NoMap),
     Expense(0, <<"A">>, <<"x">>, "equal", NoMap, NoMap),
     Expense(1500, <<"A">>, <<" ">>, "equal", NoMap, NoMap),
     Expense(1500, <<"A">>, <<"x">>, "shares", NoMap, NoMap)}
GroupKeys == {"G", "H"}

\* the group name the goroutines pass to the registry
ConcGroupNames == {<<"A">>}

GroupReads == {"GetPeople", "GetExpenseDetails", "GetGraphDOT"}
RegistryOps == {"Create", "Get", "List", "ListGroups", "Delete"}

\* goroutine t goes from pc "from" to the record next
Goes(t, from, next) ==
    /\ goroutines[t].pc = from
    /\ goroutines' = [goroutines EXCEPT ![t] = next]

\* the number of AddExpense calls under way
ExpensesUnderWay ==
    Cardinality({t \in Goroutines :
        goroutines[t].op = "AddExpense" /\ goroutines[t].pc # "return"})

\* how often key was created, less how often it was deleted
CreatedCount(key) == IF key \in DOMAIN created THEN created[key] ELSE 0

\* AddPerson up to g.mu.Lock(): a name the pattern rejects returns at once
GoAddPersonOf(names) ==
    \E t \in Goroutines : \E name \in names :
        /\ personNamePattern(TrimSpace(name))
        /\ Goes(t, "idle", [Idle EXCEPT !.op = "AddPerson", !.pc = "lock",
                                        !.lock = "G", !.arg = [Name |-> name]])
        /\ UNCHANGED <<groupVars, last, call, mu, store, created>>

GoAddPerson == GoAddPersonOf(ConcNames)

\* AddExpense up to g.mu.Lock(): the checks that need no lock; when one of
\* them fails the call returns its error without going for the mutex
GoAddExpenseOf(inputs) ==
    \E t \in Goroutines : \E e \in inputs :
        /\ IF preLockError(e) # "none"
           THEN Goes(t, "idle", [Idle EXCEPT !.op = "AddExpense", !.pc = "return",
                                             !.lock = "G", !.arg = e,
                                             !.err = preLockError(e)])
           ELSE /\ expenseIdCounter + ExpensesUnderWay < MaxExpenses
                /\ Goes(t, "idle", [Idle EXCEPT !.op = "AddExpense", !.pc = "lock",
                                                 !.lock = "G", !.arg = e])
        /\ UNCHANGED <<groupVars, last, call, mu, store, created>>

GoAddExpense == GoAddExpenseOf(ConcExpenses)

\* GetPeople, GetExpenseDetails, GetGraphDOT up to g.mu.Lock()
GoRead ==
    \E t \in Goroutines : \E op \in GroupReads :
        /\ Goes(t, "idle", [Idle EXCEPT !.op = op, !.pc = "lock", !.lock = "G"])
        /\ UNCHANGED <<groupVars, last, call, mu, store, created>>

\* Size of the other group up to its mu.Lock()
GoSizeOfOther ==
    \E t \in Goroutines :
        /\ Goes(t, "idle", [Idle EXCEPT !.op = "Size", !.pc = "lock", !.lock = "H"])
        /\ UNCHANGED <<groupVars, last, call, mu, store, created>>

\* Create, Get, List, ListGroups, Delete with one of the names, up to
\* groupMgr.mu.Lock(); Delete of a blank name returns false without the mutex
GoRegistryOf(names) ==
    \E t \in Goroutines : \E op \in RegistryOps : \E name \in names :
        /\ IF op = "Delete" /\ TrimSpace(name) = <<>>
           THEN Goes(t, "idle", [Idle EXCEPT !.op = op, !.pc = "return",
                                             !.lock = "registry", !.arg = [Name |-> name],
                                             !.err = "false"])
           ELSE Goes(t, "idle", [Idle EXCEPT !.op = op, !.pc = "lock",
                                             !.lock = "registry", !.arg = [Name |-> name]])
        /\ UNCHANGED <<groupVars, last, call, mu, store, created>>

GoRegistry == GoRegistryOf(ConcGroupNames)

\* mu.Lock() returns; start is the group, or the store, as the call finds it
Lock ==
    \E t \in Goroutines :
        /\ goroutines[t].pc = "lock"
        /\ canLock(mu, goroutines[t].lock)
        /\ mu' = [mu EXCEPT ![goroutines[t].lock] = t]
        /\ goroutines' = [goroutines EXCEPT
              ![t].pc = "body",
              ![t].start = CASE goroutines[t].lock = "G" -> Current
                             [] goroutines[t].lock = "registry" -> store
                             [] OTHER -> <<>>]
        /\ UNCHANGED <<groupVars, last, call, store, created>>

\* AddPerson: the lookup in g.people and g.graph.addNode(key)
StepAddPersonNode ==
    \E t \in Goroutines :
        LET g == goroutines[t]
            key == normalizeName(TrimSpace(g.arg.Name))
            r == addNode(nodes, key)
        IN /\ g.op = "AddPerson" /\ g.pc = "body"
           /\ IF key \in DOMAIN people
              THEN /\ goroutines' = [goroutines EXCEPT ![t].pc = "unlock",
                                        ![t].err = "DuplicateMember"]
                   /\ UNCHANGED nodes
              ELSE IF r.err # "none"
              THEN /\ goroutines' = [goroutines EXCEPT ![t].pc = "unlock",
                                        ![t].err = r.err]
                   /\ UNCHANGED nodes
              ELSE /\ goroutines' = [goroutines EXCEPT ![t].pc = "person"]
                   /\ nodes' = r.nodes
           /\ UNCHANGED <<people, expenses, expenseIdCounter, shareLog, last, call,
                          mu, store, created>>

\* AddPerson: g.people[key] = p
StepAddPersonStore ==
    \E t \in Goroutines :
        LET g == goroutines[t]
            key == normalizeName(TrimSpace(g.arg.Name))
        IN /\ g.op = "AddPerson" /\ g.pc = "person"
           /\ people' = MapPut(people, key, [Name |-> TrimSpace(g.arg.Name)])
           /\ goroutines' = [goroutines EXCEPT ![t].pc = "unlock"]
           /\ UNCHANGED <<nodes, expenses, expenseIdCounter, shareLog, last, call,
                          mu, store, created>>

\* AddExpense from the lock to the graph/people check: reads only.  plan holds
\* the payer key, the rewritten expense and the shares; todo is the order in
\* which the edge loop will range over g.people.
StepExpenseValidate ==
    \E t \in Goroutines :
        /\ goroutines[t].op = "AddExpense" /\ goroutines[t].pc = "body"
        /\ \E r \in addExpense(Current, goroutines[t].arg) :
              LET g == goroutines[t]
                  id == r.state.expenseIdCounter
              IN IF r.err # "none"
                 THEN goroutines' = [goroutines EXCEPT ![t].pc = "unlock",
                                        ![t].err = r.err]
                 ELSE \E order \in Orders(DOMAIN people) :
                         goroutines' = [goroutines EXCEPT
                             ![t].pc = "counter",
                             ![t].plan = [paidByKey |-> normalizeName(g.arg.PaidBy),
                                          e |-> r.state.expenses[id],
                                          shares |-> r.state.shareLog[id]],
                             ![t].todo = order]
        /\ UNCHANGED <<groupVars, last, call, mu, store, created>>

\* AddExpense: g.expenseIdCounter++
StepExpenseCounter ==
    \E t \in Goroutines :
        /\ goroutines[t].op = "AddExpense" /\ goroutines[t].pc = "counter"
        /\ expenseIdCounter' = expenseIdCounter + 1
        /\ goroutines' = [goroutines EXCEPT ![t].pc = "store"]
        /\ UNCHANGED <<people, nodes, expenses, shareLog, last, call, mu, store, created>>

\* AddExpense: e.ID = g.expenseIdCounter; g.expenses[e.ID] = e
StepExpenseStore ==
    \E t \in Goroutines :
        LET g == goroutines[t]
            id == expenseIdCounter
        IN /\ g.op = "AddExpense" /\ g.pc = "store"
           /\ expenses' = MapPut(expenses, id, [g.plan.e EXCEPT !.ID = id])
           /\ shareLog' = MapPut(shareLog, id, g.plan.shares)
           /\ goroutines' = [goroutines EXCEPT ![t].pc = "edges",
                                ![t].plan = [g.plan EXCEPT !.e = [@ EXCEPT !.ID = id]]]
           /\ UNCHANGED <<people, nodes, expenseIdCounter, last, call, mu, store, created>>

\* AddExpense: one iteration of the edge loop, or its end
StepExpenseEdge ==
    \E t \in Goroutines :
        LET g == goroutines[t]
            fromKey == Head(g.todo)
            r == addEdge(nodes, fromKey, g.plan.paidByKey,
                         [AmountInMicroCents |-> g.plan.shares[fromKey],
                          ExpenseID |-> g.plan.e.ID])
        IN /\ g.op = "AddExpense" /\ g.pc = "edges"
           /\ IF g.todo = <<>>
              THEN /\ goroutines' = [goroutines EXCEPT ![t].pc = "unlock"]
                   /\ UNCHANGED nodes
              ELSE IF fromKey = g.plan.paidByKey \/ fromKey \notin DOMAIN g.plan.shares
              THEN /\ goroutines' = [goroutines EXCEPT ![t].todo = Tail(g.todo)]
                   /\ UNCHANGED nodes
              ELSE IF r.err # "none"
              THEN /\ goroutines' = [goroutines EXCEPT ![t].pc = "unlock",
                                        ![t].err = r.err]
                   /\ UNCHANGED nodes
              ELSE /\ goroutines' = [goroutines EXCEPT ![t].todo = Tail(g.todo)]
                   /\ nodes' = r.nodes
           /\ UNCHANGED <<people, expenses, expenseIdCounter, shareLog, last, call,
                          mu, store, created>>

\* a read of the group: seen is the group as the body finds it
StepRead ==
    \E t \in Goroutines :
        /\ goroutines[t].op \in GroupReads /\ goroutines[t].pc = "body"
        /\ goroutines' = [goroutines EXCEPT ![t].pc = "unlock", ![t].seen = Current]
        /\ UNCHANGED <<groupVars, last, call, mu, store, created>>

\* the body of Size on the other group
StepSize ==
    \E t \in Goroutines :
        /\ goroutines[t].op = "Size" /\ goroutines[t].pc = "body"
        /\ goroutines' = [goroutines EXCEPT ![t].pc = "unlock"]
        /\ UNCHANGED <<groupVars, last, call, mu, store, created>>

\* Create: the lookup of the key and NewGroup, which takes no mutex; plan is
\* the group to store
StepCreateCheck ==
    \E t \in Goroutines :
        LET g == goroutines[t]
            display == TrimSpace(g.arg.Name)
            key == normalizeName(display)
            new == NewGroup(display)
        IN /\ g.op = "Create" /\ g.pc = "body"
           /\ goroutines' =
                 IF key \in DOMAIN store
                 THEN [goroutines EXCEPT ![t].pc = "unlock", ![t].err = "GroupExists"]
                 ELSE IF new.err # "none"
                 THEN [goroutines EXCEPT ![t].pc = "unlock", ![t].err = new.err]
                 ELSE [goroutines EXCEPT ![t].pc = "put", ![t].plan = new.group]
           /\ UNCHANGED <<groupVars, last, call, mu, store, created>>

\* Create: groupMgr.store[key] = group
StepCreateStore ==
    \E t \in Goroutines :
        LET g == goroutines[t]
            key == normalizeName(TrimSpace(g.arg.Name))
        IN /\ g.op = "Create" /\ g.pc = "put"
           /\ store' = MapPut(store, key, g.plan)
           /\ created' = MapPut(created, key, CreatedCount(key) + 1)
           /\ goroutines' = [goroutines EXCEPT ![t].pc = "unlock"]
           /\ UNCHANGED <<groupVars, last, call, mu>>

\* the body of Delete
StepDelete ==
    \E t \in Goroutines :
        LET g == goroutines[t]
            key == normalizeName(TrimSpace(g.arg.Name))
            r == Delete(store, g.arg.Name)
        IN /\ g.op = "Delete" /\ g.pc = "body"
           /\ store' = r.store
           /\ created' = IF r.err = "none"
                         THEN MapPut(created, key, CreatedCount(key) - 1)
                         ELSE created
           /\ goroutines' = [goroutines EXCEPT ![t].pc = "unlock", ![t].err = r.err]
           /\ UNCHANGED <<groupVars, last, call, mu>>

\* the body of Get, List, ListGroups: seen is what the call returns
StepRegistryRead ==
    \E t \in Goroutines :
        LET g == goroutines[t]
        IN /\ g.op \in {"Get", "List", "ListGroups"} /\ g.pc = "body"
           /\ goroutines' = [goroutines EXCEPT
                 ![t].pc = "unlock",
                 ![t].seen = CASE g.op = "Get" -> Get(store, g.arg.Name)
                               [] g.op = "List" -> List(store)
                               [] OTHER -> ListGroups(store)]
           /\ UNCHANGED <<groupVars, last, call, mu, store, created>>

\* a return that unlocks on the success path only, as a method without the
\* deferred Unlock would
Unlock_onSuccess ==
    \E t \in Goroutines :
        /\ goroutines[t].pc = "unlock"
        /\ mu' = IF goroutines[t].err = "none"
                 THEN unlock(mu, goroutines[t].lock) ELSE mu
        /\ goroutines' = [goroutines EXCEPT ![t] = Idle]
        /\ UNCHANGED <<groupVars, last, call, store, created>>

\* the return: the deferred Unlock
Unlock ==
    \E t \in Goroutines :
        /\ goroutines[t].pc = "unlock"
        /\ mu' = unlock(mu, goroutines[t].lock)
        /\ goroutines' = [goroutines EXCEPT ![t] = Idle]
        /\ UNCHANGED <<groupVars, last, call, store, created>>

\* the return of a call that never went for its mutex
Return ==
    \E t \in Goroutines :
        /\ Goes(t, "return", Idle)
        /\ UNCHANGED <<groupVars, last, call, mu, store, created>>

ConcNext ==
    \/ GoAddPerson
    \/ GoAddExpense
    \/ GoRead
    \/ GoSizeOfOther
    \/ GoRegistry
    \/ Lock
    \/ StepAddPersonNode
    \/ StepAddPersonStore
    \/ StepExpenseValidate
    \/ StepExpenseCounter
    \/ StepExpenseStore
    \/ StepExpenseEdge
    \/ StepRead
    \/ StepSize
    \/ StepCreateCheck
    \/ StepCreateStore
    \/ StepDelete
    \/ StepRegistryRead
    \/ Unlock
    \/ Return

ConcSpec == Init /\ [][ConcNext]_vars

\* names given to the registry: two spellings of one key, a second key, a
\* name with a space inside, a letter outside ASCII, a blank name
GroupNames ==
    {<<"A">>, <<" ", "a", " ">>, <<"B", "-", "_">>, <<"a", " ", "b">>,
     <<"Kelvin">>, <<" ">>}

GoRegistryNamed == GoRegistryOf(GroupNames)

\* goroutines calling the registry only
RegistryNext ==
    \/ GoRegistryNamed
    \/ Lock
    \/ StepCreateCheck
    \/ StepCreateStore
    \/ StepDelete
    \/ StepRegistryRead
    \/ Unlock
    \/ Return

RegistrySpec == Init /\ [][RegistryNext]_vars

-----------------------------------------------------------------------------
(* The split functions called directly: the initial state holds the         *)
(* arguments of one call, the action applies the function to them.          *)

SplitKeys == {<<"a">>, <<"a", "b">>, <<"b">>, <<"c">>}

SplitTotals == {1, 2, 5, 1000, 100000, 10000000}

\* every slice of distinct keys, in every order
NameSlices == UNION {Orders(S) : S \in SUBSET SplitKeys}

MapsOver(keys, values) == UNION {[S -> values] : S \in SUBSET keys}

\* percentage maps over three of the keys.  Maps whose sum lies exactly on the
\* tolerance are left out: whether float64 accepts them depends on rounding.
PercentMaps ==
    {m \in MapsOver({<<"a">>, <<"a", "b">>, <<"b">>},
                    {Pct(-10, 0), Pct(0, 0), Pct(0, 3), Pct(33, 66), Pct(33, 67), Pct(49, 199),
                     Pct(50, 0), Pct(50, 1), Pct(100, 0), Pct(110, 0)}) :
        Abs(SumMap(m) - HundredPercent) # PercentTolerance}

WeightMaps == MapsOver({<<"a">>, <<"a", "b">>, <<"b">>}, {-1, 0, 1, 2, 3})

Pending == SplitErr("pending")

SplitCall(fn, total, arg) == [fn |-> fn, total |-> total, arg |-> arg, result |-> Pending]

SplitInit ==
    /\ people = EmptyMap
    /\ nodes = EmptyMap
    /\ expenses = EmptyMap
    /\ expenseIdCounter = 0
    /\ shareLog = EmptyMap
    /\ last = Returned("NewGroup", "none", <<>>)
    /\ ConcInit
    /\ call \in {SplitCall("splitEqual", t, names) : t \in SplitTotals, names \in NameSlices}
            \cup {SplitCall("splitByPercent", t, m) : t \in SplitTotals, m \in PercentMaps}
            \cup {SplitCall("splitByWeights", t, m) : t \in SplitTotals, m \in WeightMaps}

RunSplitEqual ==
    /\ call.fn = "splitEqual" /\ call.result = Pending
    /\ call' = [call EXCEPT !.result = splitEqual(call.total, call.arg)]
    /\ UNCHANGED <<groupVars, last, concVars>>

RunSplitByPercent ==
    /\ call.fn = "splitByPercent" /\ call.result = Pending
    /\ \E res \in splitByPercent(call.total, call.arg) :
          call' = [call EXCEPT !.result = res]
    /\ UNCHANGED <<groupVars, last, concVars>>

RunSplitByWeights ==
    /\ call.fn = "splitByWeights" /\ call.result = Pending
    /\ \E res \in splitByWeights(call.total, call.arg) :
          call' = [call EXCEPT !.result = res]
    /\ UNCHANGED <<groupVars, last, concVars>>

SplitNext == RunSplitEqual \/ RunSplitByPercent \/ RunSplitByWeights

SplitSpec == SplitInit /\ [][SplitNext]_vars

Done(fn) == call.fn = fn /\ call.result # Pending

-----------------------------------------------------------------------------
(* The tools add_people and add_expense of the server, from the lookup of   *)
(* the group on: every field of the input is given and the group exists.    *)

\* what a tool call leaves behind: the error it returns ("none" for nil), the
\* text of its result, and the group state at its return
ToolResult(kind, text, st) == [err |-> kind, text |-> text, state |-> st]

\* the loop of AddPeople over the names: it returns at the first error
RECURSIVE addPeopleLoop(_, _)
addPeopleLoop(st, names) ==
    IF names = <<>> THEN ToolResult("none", "success", st)
    ELSE LET r == addPerson(st, Head(names))
         IN IF r.err # "none" THEN ToolResult(r.err, "", r.state)
            ELSE addPeopleLoop(r.state, Tail(names))

\* AddPeople on the group state st
AddPeople(st, names) ==
    IF Len(names) = 0 THEN ToolResult("NamesRequired", "", st)
    ELSE addPeopleLoop(st, names)

\* strconv.ParseInt(s, 10, 64) for the digits of the model: an optional sign,
\* then at least one digit
RECURSIVE ParseDigits(_, _)
ParseDigits(s, acc) ==
    IF s = <<>> THEN [err |-> "none", value |-> acc]
    ELSE IF \E d \in 0..9 : Digit(d) = Head(s)
    THEN ParseDigits(Tail(s), 10 * acc + (CHOOSE d \in 0..9 : Digit(d) = Head(s)))
    ELSE [err |-> "syntax", value |-> 0]

ParseInt(s) ==
    IF s = <<>> THEN [err |-> "syntax", value |-> 0]
    ELSE IF Head(s) \in {"+", "-"}
    THEN IF Tail(s) = <<>> THEN [err |-> "syntax", value |-> 0]
         ELSE LET r == ParseDigits(Tail(s), 0)
              IN IF Head(s) = "-" THEN [r EXCEPT !.value = 0 - r.value] ELSE r
    ELSE ParseDigits(s, 0)

\* strings.SplitN(s, ".", 2)
SplitAtDot(s) ==
    IF \E i \in 1..Len(s) : s[i] = "."
    THEN LET i == CHOOSE i \in 1..Len(s) :
                     s[i] = "." /\ \A j \in 1..(i - 1) : s[j] # "."
         IN <<SubSeq(s, 1, i - 1), SubSeq(s, i + 1, Len(s))>>
    ELSE <<s>>

\* parseDollarsToMicroCents
parseDollarsToMicroCents(str) ==
    LET s == TrimSpace(str)
        parts == SplitAtDot(s)
        dollars == ParseInt(parts[1])
        frac == IF Len(parts[2]) = 1 THEN parts[2] \o <<"0">> ELSE parts[2]
        cents == ParseInt(frac)
    IN IF s = <<>> THEN [err |-> "EmptyAmount", value |-> 0]
       ELSE IF dollars.err # "none" \/ dollars.value < 0
       THEN [err |-> "InvalidDollars", value |-> 0]
       ELSE IF Len(parts) = 1
       THEN [err |-> "none",
             value |-> dollars.value * CentsPerDollar * MicroCentsPerCent]
       ELSE IF Len(parts[2]) > 2 THEN [err |-> "TooManyDecimals", value |-> 0]
       ELSE IF cents.err # "none" THEN [err |-> "InvalidCents", value |-> 0]
       ELSE [err |-> "none",
             value |-> (dollars.value * CentsPerDollar + cents.value)
                          * MicroCentsPerCent]

\* the checks AddExpense (the tool) makes of the split parameters; names is
\* the result of group.GetPeople()
toolSplitError(in, names) ==
    LET memberSet == {names[i] : i \in 1..Len(names)}
    IN IF in.SplitMethod = "percentage"
       THEN IF DOMAIN in.SplitPercentages = {} THEN "PercentagesRequired"
            ELSE IF Abs(SumMap(in.SplitPercentages) - HundredPercent) > PercentTolerance
            THEN "PercentageSumMismatch"
            ELSE IF \E name \in DOMAIN in.SplitPercentages : name \notin memberSet
            THEN "NotInGroup"
            ELSE "none"
       ELSE IF in.SplitMethod = "weights"
       THEN IF \E name \in DOMAIN in.SplitWeights : in.SplitWeights[name] < 0
            THEN "NegativeWeight"
            ELSE IF SumMap(in.SplitWeights) = 0 THEN "ZeroWeightSum"
            ELSE "none"
       ELSE "none"

\* AddExpense (the tool) on the group state st: the amount is parsed, the
\* split parameters are checked, group.AddExpense is called and what it
\* returns is dropped
AddExpenseTool(st, in) ==
    LET total == parseDollarsToMicroCents(in.Amount)
        split == toolSplitError(in, GetPeople(st))
    IN IF total.err # "none" THEN {ToolResult(total.err, "", st)}
       ELSE IF split # "none" THEN {ToolResult(split, "", st)}
       ELSE {ToolResult("none", "Expense added successfully.", r.state) :
                r \in addExpense(st, Expense(total.value, in.PaidBy, in.Description,
                                             in.SplitMethod, in.SplitPercentages,
                                             in.SplitWeights))}

\* batches of names given to add_people
NameBatches ==
    {<<>>, <<<<"A">>>>, <<<<"A">>, <<"B">>>>, <<<<"B">>, <<"1">>>>,
     <<<<"k">>, <<" ", "a", " ">>>>}

ToolInput(amount, paidBy, description, method, percentages, weights) ==
    [Amount |-> amount, PaidBy |-> paidBy, Description |-> description,
     SplitMethod |-> method, SplitPercentages |-> percentages,
     SplitWeights |-> weights]

\* the amounts "1.5", "0" and "x"
DollarFifty == <<"1", ".", "5">>
ZeroDollars == <<"0">>
NoAmount == <<"x">>

\* inputs given to add_expense
ToolInputs ==
    {ToolInput(DollarFifty, <<"A">>, <<"x">>, "equal", NoMap, NoMap),
     ToolInput(DollarFifty, <<"1">>, <<"x">>, "equal", NoMap, NoMap),
     ToolInput(ZeroDollars, <<"A">>, <<"x">>, "equal", NoMap, NoMap),
     ToolInput(NoAmount, <<"A">>, <<"x">>, "equal", NoMap, NoMap),
     ToolInput(DollarFifty, <<"B">>, <<"x">>, "percentage",
               Map2(<<"A">>, Pct(50, 0), <<"B">>, Pct(50, 0)), NoMap),
     ToolInput(DollarFifty, <<"B">>, <<"x">>, "percentage",
               Map2(<<"a">>, Pct(50, 0), <<"B">>, Pct(50, 0)), NoMap),
     ToolInput(DollarFifty, <<"A">>, <<"x">>, "percentage",
               Map2(<<"A">>, Pct(60, 0), <<"B">>, Pct(30, 0)), NoMap),
     ToolInput(DollarFifty, <<"A">>, <<"x">>, "weights",
               NoMap, Map2(<<"A">>, 0, <<"B">>, 1)),
     ToolInput(DollarFifty, <<"A">>, <<"x">>, "weights",
               NoMap, Map2(<<"A">>, 0, <<"1">>, 1)),
     ToolInput(DollarFifty, <<"A">>, <<"x">>, "weights",
               NoMap, Map2(<<"A">>, -1, <<"B">>, 2))}

\* a call of the tool add_people
ToolAddPeople ==
    \E names \in NameBatches :
        LET r == AddPeople(Current, names)
        IN /\ SetGroup(r.state)
           /\ last' = Returned("add_people", r.err, r.text)
           /\ UNCHANGED <<call, concVars>>

\* a call of the tool add_expense
ToolAddExpense ==
    \E in \in ToolInputs : \E r \in AddExpenseTool(Current, in) :
        /\ r.state.expenseIdCounter <= MaxExpenses
        /\ SetGroup(r.state)
        /\ last' = Returned("add_expense", r.err, r.text)
        /\ UNCHANGED <<call, concVars>>

ToolNext ==
    \/ ToolAddPeople
    \/ ToolAddExpense
    \/ CallGetExpenseDetails
    \/ CallGetPeople

ToolSpec == Init /\ [][ToolNext]_vars

-----------------------------------------------------------------------------
(* Quantities the properties speak of *)

MemberCount == Cardinality(DOMAIN people)
ExpenseCount == Cardinality(DOMAIN expenses)
EdgeCount == SumMap([k \in DOMAIN nodes |-> Len(nodes[k])])

\* the same three counts and the id counter in the next state
CountsUnchanged ==
    /\ Cardinality(DOMAIN people') = MemberCount
    /\ Cardinality(DOMAIN expenses') = ExpenseCount
    /\ SumMap([k \in DOMAIN nodes' |-> Len(nodes'[k])]) = EdgeCount
    /\ expenseIdCounter' = expenseIdCounter

\* sum of the amounts of all edges that carry the expense id
EdgeSumOfExpense(id) ==
    SumMap([k \in DOMAIN nodes |->
        SumSeq([i \in 1..Len(nodes[k]) |->
            IF nodes[k][i].Metadata.ExpenseID = id
            THEN nodes[k][i].Metadata.AmountInMicroCents ELSE 0])])

\* the share the split gave the payer of the logged expense id, 0 if none
PayerShare(id) ==
    LET payer == normalizeName(expenses[id].PaidBy)
    IN IF payer \in DOMAIN shareLog[id] THEN shareLog[id][payer] ELSE 0

\* the edge lines of a DOT text for the ordered pair (from, to)
DotLines(text, from, to) ==
    {i \in 1..Len(text) :
        text[i].kind = "edge" /\ text[i].from = from /\ text[i].to = to}

MemberPairs == {p \in (DOMAIN people) \X (DOMAIN people) : p[1] # p[2]}

-----------------------------------------------------------------------------
(* Properties *)

\* C1: in every reachable state the set of graph nodes equals the set of
\* canonical member keys.
C1_NodesEqualMembers == DOMAIN nodes = DOMAIN people

\* C1 witness: three members and a committed expense, at the return of a
\* failed AddExpense
C1_Witness ==
    /\ MemberCount = 3 /\ ExpenseCount >= 1
    /\ last.op = "AddExpense" /\ last.err = "error"

\* C2: a step in which AddExpense returns an error leaves the member count,
\* the expense count, the edge count and the id counter as they were.
C2_FailedAddExpenseChangesNothing ==
    [][(last'.op = "AddExpense" /\ last'.err = "error") => CountsUnchanged]_vars

\* C2 witness: AddExpense has failed in a group that holds expenses and edges
C2_Witness ==
    /\ last.op = "AddExpense" /\ last.err = "error"
    /\ ExpenseCount = 2 /\ EdgeCount >= 2

\* C3 as stated: for every logged expense the amounts of the edges carrying
\* its id sum to the expense's total.
C3_EdgesSumToTotal ==
    \A id \in DOMAIN expenses :
        EdgeSumOfExpense(id) = expenses[id].TotalMicroCents

\* C3 amended: for every logged expense the amounts of the edges carrying its
\* id sum to the computed shares without the payer's own share (the payer gets
\* no edge); for an equal or weights split that is the expense's total minus
\* the payer's share.
C3_EdgesSumToNonPayerShares ==
    \A id \in DOMAIN expenses :
        /\ EdgeSumOfExpense(id) = SumMap(shareLog[id]) - PayerShare(id)
        /\ expenses[id].SplitMethod \in {"equal", "weights"} =>
              EdgeSumOfExpense(id) = expenses[id].TotalMicroCents - PayerShare(id)

\* C3 witness: a logged expense whose payer has a share of its own
C3_Witness ==
    \E id \in DOMAIN expenses :
        /\ PayerShare(id) > 0
        /\ EdgeSumOfExpense(id) > 0
        /\ EdgeSumOfExpense(id) < expenses[id].TotalMicroCents

\* C4: for total > 0 and n >= 2 distinct keys splitEqual gives every
\* participant a share, the shares sum to total, each is floor(total/n) or
\* floor(total/n) + 1, and the total mod n smallest keys get floor + 1.
C4_EqualSplitExact ==
    (Done("splitEqual") /\ call.total > 0 /\ Len(call.arg) >= 2) =>
        LET n == Len(call.arg)
            S == {call.arg[i] : i \in 1..n}
            sh == call.result.shares
            floor == call.total \div n
            plus == {k \in S : sh[k] = floor + 1}
        IN /\ call.result.err = "none"
           /\ DOMAIN sh = S
           /\ SumMap(sh) = call.total
           /\ \A k \in S : sh[k] \in {floor, floor + 1}
           /\ Cardinality(plus) = call.total % n
           /\ \A k \in plus : \A o \in S \ plus : StrLess(k, o)

\* C4 witness: three keys given in descending order, two of them get floor + 1
C4_Witness ==
    /\ Done("splitEqual") /\ Len(call.arg) = 3 /\ call.total % 3 = 2
    /\ StrLess(call.arg[3], call.arg[2]) /\ StrLess(call.arg[2], call.arg[1])
    /\ call.result.shares[call.arg[1]] = call.total \div 3

\* C5: for total > 0 and every percentage map splitByPercent accepts, the
\* shares sum to the total.
C5_PercentSharesSumToTotal ==
    (Done("splitByPercent") /\ call.total > 0 /\ call.result.err = "none") =>
        SumMap(call.result.shares) = call.total

\* C6: no share of an accepted percentage split is negative, so no edge of a
\* percentage expense carries a negative amount.
C6_NoNegativePercentageEdge ==
    /\ \A id \in DOMAIN expenses :
          expenses[id].SplitMethod = "percentage" =>
             \A k \in DOMAIN shareLog[id] : shareLog[id][k] >= 0
    /\ \A k \in DOMAIN nodes : \A i \in 1..Len(nodes[k]) :
          expenses[nodes[k][i].Metadata.ExpenseID].SplitMethod = "percentage" =>
             nodes[k][i].Metadata.AmountInMicroCents >= 0

\* C7: for total > 0 and weights >= 0 with a positive sum splitByWeights
\* returns no entry for a weight of 0, a non-negative entry for every positive
\* weight, and shares that sum to the total.
C7_WeightSplitExact ==
    (/\ Done("splitByWeights") /\ call.total > 0
     /\ \A k \in DOMAIN call.arg : call.arg[k] >= 0
     /\ SumMap(call.arg) > 0) =>
        LET sh == call.result.shares
        IN /\ call.result.err = "none"
           /\ DOMAIN sh = {k \in DOMAIN call.arg : call.arg[k] > 0}
           /\ \A k \in DOMAIN sh : sh[k] >= 0
           /\ SumMap(sh) = call.total

\* C7 witness: a weight of 0 next to two positive weights, with units left
\* over after the floors
C7_Witness ==
    /\ Done("splitByWeights") /\ call.result.err = "none"
    /\ \E k \in DOMAIN call.arg : call.arg[k] = 0
    /\ Cardinality(DOMAIN call.result.shares) = 2
    /\ \E k \in DOMAIN call.result.shares :
          call.result.shares[k] > FloorMulDiv(call.arg[k], call.total, SumMap(call.arg))

\* C8: a successful AddExpense gets an id larger than every id assigned
\* before, one that is not in the log, and the counter never goes back, also
\* across failed calls.
C8_ExpenseIdsIncrease ==
    [][/\ expenseIdCounter' >= expenseIdCounter
       /\ \A id \in DOMAIN expenses : id <= expenseIdCounter
       /\ (last'.op = "AddExpense" /\ last'.err = "none") =>
             /\ last'.out > expenseIdCounter
             /\ last'.out \notin DOMAIN expenses
             /\ DOMAIN expenses' = (DOMAIN expenses) \cup {last'.out}
             /\ expenses'[last'.out].ID = last'.out
             /\ expenseIdCounter' = last'.out
             /\ \A id \in DOMAIN expenses : expenses'[id] = expenses[id]]_vars

\* C8 witness: a second expense is committed after a failed call
C8_Witness ==
    /\ last.op = "AddExpense" /\ last.err = "error"
    /\ DOMAIN expenses = {1, 2}
    /\ expenses[1].ID = 1 /\ expenses[2].ID = 2

-----------------------------------------------------------------------------
(* Properties of the group "trip" *)

alice == normalizeName(Alice)
bob == normalizeName(Bob)
charlie == normalizeName(Charlie)

\* the logged expenses of the given method that Alice paid for the three
\* members, $100.00 each
TripExpenses(method) ==
    {id \in DOMAIN expenses :
        /\ expenses[id].SplitMethod = method
        /\ expenses[id].TotalMicroCents = HundredDollars
        /\ expenses[id].PaidBy = Alice
        /\ DOMAIN people = {alice, bob, charlie}}

\* the group holds one expense, the first it was given successfully
SingleExpense == DOMAIN expenses = {1} /\ expenseIdCounter = 1

\* the text between the two names of a key of GetExpenseDetails
ToPay == <<" ", "t", "o", " ", "p", "a", "y", " ">>

\* C11 as stated: the equal split of 10,000,000 among Alice, Bob and Charlie
\* sums to 10,000,000, two members (the smallest keys) get 3,333,334 and the
\* third gets 3,333,332.
C11_EqualScenarioAsStated ==
    \A id \in TripExpenses("equal") :
        DOMAIN shareLog[id] = {alice, bob, charlie} =>
            /\ SumMap(shareLog[id]) = 10000000
            /\ shareLog[id][alice] = 3333334
            /\ shareLog[id][bob] = 3333334
            /\ shareLog[id][charlie] = 3333332

\* C11 amended: the equal split of 10,000,000 among Alice, Bob and Charlie
\* sums to 10,000,000; 10,000,000 mod 3 = 1, so the smallest key (alice) gets
\* 3,333,334 and the other two get 3,333,333; Bob and Charlie each get an edge
\* to Alice of 3,333,333.
C11_EqualScenario ==
    \A id \in TripExpenses("equal") :
        DOMAIN shareLog[id] = {alice, bob, charlie} =>
            /\ SumMap(shareLog[id]) = 10000000
            /\ shareLog[id][alice] = 3333334
            /\ shareLog[id][bob] = 3333333
            /\ shareLog[id][charlie] = 3333333
            /\ EdgeSumOfExpense(id) = 2 * 3333333
            /\ \A i \in 1..Len(nodes[alice]) : nodes[alice][i].Metadata.ExpenseID # id

\* C11 witness: the equal expense of the scenario is in the log
C11_Witness ==
    \E id \in TripExpenses("equal") :
        /\ DOMAIN shareLog[id] = {alice, bob, charlie}
        /\ \E i \in 1..Len(nodes[charlie]) : nodes[charlie][i].Metadata.ExpenseID = id

\* C12: after a single successful percentage expense paid by P in a fresh
\* group, GetExpenseDetails holds one entry for every participant other than P
\* whose share is at least one cent, from the participant to P with the share
\* as its amount, and no other entry.
C12_PercentageSettlements ==
    (/\ last.op = "GetExpenseDetails" /\ SingleExpense
     /\ expenses[1].SplitMethod = "percentage") =>
        LET P == normalizeName(expenses[1].PaidBy)
            sh == shareLog[1]
            owing == {k \in (DOMAIN sh) \ {P} : sh[k] >= MicroCentsPerCent}
        IN /\ DOMAIN last.out = {detailKey(Current, k, P) : k \in owing}
           /\ \A k \in owing : last.out[detailKey(Current, k, P)] = sh[k]

\* C13: a member without an entry in the share map of an expense has no edge
\* for that expense; and after the single expense of $100.00 paid by Alice
\* with weights Alice 0, Bob 4, Charlie 4, Alice has no share and
\* GetExpenseDetails is exactly Bob to pay Alice $50.00 and Charlie to pay
\* Alice $50.00.
C13_NoShareNoEdge ==
    /\ \A id \in DOMAIN expenses : \A k \in DOMAIN nodes :
          k \notin DOMAIN shareLog[id] =>
             \A i \in 1..Len(nodes[k]) : nodes[k][i].Metadata.ExpenseID # id
    /\ (/\ last.op = "GetExpenseDetails" /\ SingleExpense
        /\ 1 \in TripExpenses("weights")
        /\ expenses[1].SplitWeights = Map3(alice, 0, bob, 4, charlie, 4)) =>
          /\ alice \notin DOMAIN shareLog[1]
          /\ last.out = Map2(Bob \o ToPay \o Alice, 50 * CentsPerDollar * MicroCentsPerCent,
                             Charlie \o ToPay \o Alice, 50 * CentsPerDollar * MicroCentsPerCent)

\* C13 witness: the settlements of the weights scenario have been read, and
\* Alice, without a share, is not the payer of a second expense in the log
C13_Witness ==
    /\ last.op = "GetExpenseDetails"
    /\ \E id \in DOMAIN expenses :
          /\ expenses[id].SplitMethod = "weights"
          /\ expenses[id].PaidBy = Bob
          /\ alice \in DOMAIN people
          /\ alice \notin DOMAIN shareLog[id]
          /\ EdgeSumOfExpense(id) > 0


-----------------------------------------------------------------------------
(* Properties of the graph, the membership and the reads *)

\* keys given to addEdge: the keys of the names AddPerson can register and one
\* that is never a node
EdgeEndpoints == {<<"a">>, <<"b">>, <<"k">>, <<"1">>}

\* C14: both endpoints of every edge are keys of current members, and in
\* every reachable state addEdge with an endpoint that is not a node returns
\* an error and leaves the graph as it was.
C14_EdgeEndpointsAreMembers ==
    /\ \A k \in DOMAIN nodes : \A i \in 1..Len(nodes[k]) :
          k \in DOMAIN people /\ nodes[k][i].To \in DOMAIN people
    /\ \A from \in EdgeEndpoints : \A to \in EdgeEndpoints :
          (from \notin DOMAIN nodes \/ to \notin DOMAIN nodes) =>
             LET r == addEdge(nodes, from, to,
                              [AmountInMicroCents |-> 1, ExpenseID |-> 1])
             IN r.err # "none" /\ r.nodes = nodes

\* C14 witness: a graph with edges in which a registrable key is not a node
C14_Witness ==
    /\ EdgeCount >= 2
    /\ <<"a">> \in DOMAIN nodes /\ nodes[<<"a">>] # <<>>
    /\ <<"k">> \notin DOMAIN nodes

\* what the claims about names call the canonical key: trimmed, lowercased
CanonicalKey(name) == ToLower(TrimSpace(name))

\* the display name of every registered key stays what it is, and a
\* successful AddPerson registers one new key under the trimmed name given
DisplayNamesKept ==
    /\ \A k \in DOMAIN people : k \in DOMAIN people' /\ people'[k] = people[k]
    /\ (last'.op = "AddPerson" /\ last'.err = "none") =>
          \E k \in (DOMAIN people') \ (DOMAIN people) :
             /\ DOMAIN people' = (DOMAIN people) \cup {k}
             /\ CanonicalKey(people'[k].Name) = k
             /\ TrimSpace(people'[k].Name) = people'[k].Name
    /\ (last'.op = "AddPerson" /\ last'.err = "error") => UNCHANGED groupVars

\* C15 as stated: AddPerson with a name whose canonical key is registered
\* fails as a duplicate, and the display name of a key is the one of its
\* first registration and never changes.
C15_DuplicateKeyRejected ==
    [][/\ \A name \in PersonNames :
             CanonicalKey(name) \in DOMAIN people =>
                LET r == addPerson(Current, name)
                IN r.err = "DuplicateMember" /\ r.state = Current
       /\ DisplayNamesKept]_vars

\* C15 amended: AddPerson with a name whose canonical key is registered fails
\* and changes nothing: as a duplicate when the trimmed name matches the name
\* pattern, as an invalid name when it does not (a name with a letter outside
\* ASCII that lowercases to an ASCII letter); the display name of a key is the
\* one of its first registration and never changes.
C15_RegisteredKeyRejected ==
    [][/\ \A name \in PersonNames :
             CanonicalKey(name) \in DOMAIN people =>
                LET r == addPerson(Current, name)
                IN /\ r.err = IF personNamePattern(TrimSpace(name))
                              THEN "DuplicateMember" ELSE "InvalidName"
                   /\ r.state = Current
       /\ DisplayNamesKept]_vars

\* C15 witness: AddPerson has failed as a duplicate in a group where the key
\* "a" was registered with the spelling " a " and the key "k" is registered
C15_Witness ==
    /\ last.op = "AddPerson" /\ last.out = "DuplicateMember"
    /\ <<"a">> \in DOMAIN people /\ people[<<"a">>].Name = <<"a">>
    /\ <<"k">> \in DOMAIN people
    /\ ExpenseCount >= 1

\* net of the two directions of a pair
NetBalance(from, to) == edgeSum(Current, from, to) - edgeSum(Current, to, from)

NodeLines(text) == {i \in 1..Len(text) : text[i].kind = "node"}
EdgeLines(text) == {i \in 1..Len(text) : text[i].kind = "edge"}

\* C19: the DOT text holds one node line per member, in ascending key order
\* and labelled with the display name, then one edge line for every ordered
\* pair whose edges sum to a positive amount and for no other pair, in
\* ascending order of from-key, then to-key.
C19_DotStructure ==
    last.op = "GetGraphDOT" =>
        LET text == last.out
        IN /\ Cardinality(NodeLines(text)) = MemberCount
           /\ \A k \in DOMAIN people :
                 \E i \in NodeLines(text) :
                    text[i].key = k /\ text[i].label = people[k].Name
           /\ \A i \in NodeLines(text) : \A j \in NodeLines(text) :
                 i < j => StrLess(text[i].key, text[j].key)
           /\ \A i \in NodeLines(text) : \A j \in EdgeLines(text) : i < j
           /\ \A from \in DOMAIN nodes : \A to \in DOMAIN nodes :
                 Cardinality(DotLines(text, from, to)) =
                    IF edgeSum(Current, from, to) > 0 THEN 1 ELSE 0
           /\ \A i \in EdgeLines(text) :
                 text[i].from \in DOMAIN people /\ text[i].to \in DOMAIN people
           /\ \A i \in EdgeLines(text) : \A j \in EdgeLines(text) :
                 i < j => EdgeKeyBefore(<<text[i].from, text[i].to>>,
                                        <<text[j].from, text[j].to>>)

\* C19 witness: three members, two edge lines, and a pair with edges that sum
\* to a negative amount
C19_Witness ==
    /\ last.op = "GetGraphDOT"
    /\ MemberCount = 3
    /\ Cardinality(EdgeLines(last.out)) >= 2
    /\ \E p \in MemberPairs : edgeSum(Current, p[1], p[2]) < 0

\* C20: GetPeople returns the display names of the members, one per member,
\* in ascending order of their lowercased form.
C20_PeopleSorted ==
    last.op = "GetPeople" =>
        /\ Len(last.out) = MemberCount
        /\ {last.out[i] : i \in 1..Len(last.out)} =
              {people[k].Name : k \in DOMAIN people}
        /\ \A i \in 1..Len(last.out) : \A j \in 1..Len(last.out) :
              i < j => StrLess(ToLower(last.out[i]), ToLower(last.out[j]))

\* C20 witness: three members, the first of them registered in lower case, so
\* that the byte order of the names is not the order returned
C20_Witness ==
    /\ last.op = "GetPeople"
    /\ Len(last.out) = 3
    /\ last.out[1] = <<"a">> /\ last.out[2] = <<"B">>


-----------------------------------------------------------------------------
(* Properties of the locking *)

\* the edges of the group state st from k that carry the expense id
EdgesOf(st, k, id) ==
    {i \in 1..Len(st.nodes[k]) : st.nodes[k][i].Metadata.ExpenseID = id}

\* a group state between two calls: every member has its node and no other
\* node exists, the ids in the log are 1..counter, and every logged expense
\* has all its edges: one from each sharer other than the payer, to the payer,
\* with the share as its amount
Consistent(st) ==
    /\ DOMAIN st.nodes = DOMAIN st.people
    /\ DOMAIN st.expenses = 1..st.expenseIdCounter
    /\ DOMAIN st.shareLog = DOMAIN st.expenses
    /\ \A id \in DOMAIN st.expenses :
          LET payer == normalizeName(st.expenses[id].PaidBy)
              sh == st.shareLog[id]
          IN /\ st.expenses[id].ID = id
             /\ \A k \in DOMAIN st.nodes :
                   /\ Cardinality(EdgesOf(st, k, id)) =
                         IF k \in (DOMAIN sh) \ {payer} THEN 1 ELSE 0
                   /\ \A i \in EdgesOf(st, k, id) :
                         /\ st.nodes[k][i].To = payer
                         /\ st.nodes[k][i].Metadata.AmountInMicroCents = sh[k]

\* goroutine t is between its Lock and its Unlock
InLockedSection(t) == goroutines[t].pc \notin {"idle", "lock", "return"}

\* C16: under every interleaving, a call on the group finds the group in a
\* state between two calls (no member without node, no expense without some of
\* its edges, no id twice), a read sees exactly that state, and a mutation
\* leaves the state that the whole call, run alone on the state it found,
\* would leave: the calls take effect one after the other in the order of
\* their Lock.
C16_CallsAreAtomic ==
    /\ mu["G"] = 0 => Consistent(Current)
    /\ \A t \in Goroutines :
          LET g == goroutines[t]
          IN /\ (g.lock = "G" /\ InLockedSection(t)) => Consistent(g.start)
             /\ (g.op \in GroupReads /\ g.pc = "unlock") =>
                   g.seen = g.start /\ Consistent(g.seen)
             /\ (g.op = "AddPerson" /\ g.pc = "unlock") =>
                   LET r == addPerson(g.start, g.arg.Name)
                   IN Current = r.state /\ g.err = r.err
             /\ (g.op = "AddExpense" /\ g.pc = "unlock") =>
                   \E r \in addExpense(g.start, g.arg) :
                       Current = r.state /\ g.err = r.err

\* C16 witness: a read has seen a group of three members with an expense of
\* two edges while the other goroutine waits for the lock with a mutation
C16_Witness ==
    \E t \in Goroutines : \E u \in Goroutines :
        /\ goroutines[t].op \in GroupReads /\ goroutines[t].pc = "unlock"
        /\ Cardinality(DOMAIN goroutines[t].seen.people) = 3
        /\ goroutines[t].seen.expenseIdCounter = 1
        /\ EdgeCount = 2
        /\ goroutines[u].op = "AddExpense" /\ goroutines[u].pc = "lock"

\* the mutexes goroutine t holds
Held(t) == {l \in Locks : mu[l] = t}

\* the mutex a call takes: a Group method its own group's, a registry
\* function the registry's
LockOf(op) ==
    CASE op \in GroupReads \cup {"AddPerson", "AddExpense"} -> "G"
      [] op = "Size" -> "H"
      [] op \in RegistryOps -> "registry"
      [] OTHER -> "none"

\* C17: a goroutine holds at most one mutex, never the registry's together
\* with a group's; a call waits only for the mutex of its own group (or of
\* the registry, for a registry function) and holds nothing while it waits,
\* and whoever makes it wait is inside a call on that same group.
C17_GroupsDoNotBlockEachOther ==
    \A t \in Goroutines :
        LET g == goroutines[t]
        IN /\ Cardinality(Held(t)) <= 1
           /\ ~("registry" \in Held(t) /\ Held(t) \cap GroupKeys # {})
           /\ g.lock = LockOf(g.op)
           /\ ~InLockedSection(t) => Held(t) = {}
           /\ InLockedSection(t) => Held(t) = {g.lock}
           /\ (g.pc = "lock" /\ mu[g.lock] # 0) =>
                 /\ goroutines[mu[g.lock]].lock = g.lock
                 /\ InLockedSection(mu[g.lock])

\* C17 witness: one goroutine is inside AddExpense on the group while the
\* other is inside a call on the other group
C17_Witness ==
    \E t \in Goroutines : \E u \in Goroutines :
        /\ mu["G"] = t /\ goroutines[t].pc = "edges"
        /\ mu["H"] = u /\ goroutines[u].pc = "unlock"

-----------------------------------------------------------------------------
(* Properties of the split errors and of the remainder distribution *)

\* a group of the two members "a" and "b" without expenses
TwoMembers ==
    addPerson(addPerson(GroupState(EmptyMap, EmptyMap, EmptyMap, 0, EmptyMap),
                        <<"a">>).state, <<"b">>).state

\* C22: splitByPercent rejects every percentage map whose sum differs from
\* 100 by more than 0.01, splitByWeights rejects every weight map with a
\* negative weight or a sum <= 0, and AddExpense with such a map and the
\* method of the map returns an error (the split error when every key of the
\* map is a member) and leaves the group as it was.
C22_SplitErrorsReject ==
    /\ (/\ Done("splitByPercent")
        /\ 100 * Abs(SumMap(call.arg) - 100 * UnitsPerPercent) > UnitsPerPercent) =>
          /\ call.result.err = "PercentageSumMismatch"
          /\ \A r \in addExpense(TwoMembers,
                                 Expense(call.total, <<"a">>, <<"x">>, "percentage",
                                         call.arg, NoMap)) :
                /\ r.err # "none" /\ r.state = TwoMembers
                /\ DOMAIN call.arg \subseteq DOMAIN TwoMembers.people =>
                      r.err = "PercentageSumMismatch"
    /\ (/\ Done("splitByWeights")
        /\ \/ \E k \in DOMAIN call.arg : call.arg[k] < 0
           \/ SumMap(call.arg) <= 0) =>
          /\ call.result.err \in {"NegativeWeight", "NonPositiveWeightSum"}
          /\ \A r \in addExpense(TwoMembers,
                                 Expense(call.total, <<"a">>, <<"x">>, "weights",
                                         NoMap, call.arg)) :
                /\ r.err # "none" /\ r.state = TwoMembers
                /\ DOMAIN call.arg \subseteq DOMAIN TwoMembers.people =>
                      r.err \in {"NegativeWeight", "NonPositiveWeightSum"}

\* C22 witness: splitByPercent has rejected a map of the two members whose
\* percentages sum to 100.015
C22_Witness ==
    /\ Done("splitByPercent") /\ call.result.err = "PercentageSumMismatch"
    /\ DOMAIN call.arg = {<<"a">>, <<"b">>}
    /\ SumMap(call.arg) = Pct(100, 3)

\* C25: for a map they accept, splitByPercent and splitByWeights give every
\* participant (for weights: every key of non-zero weight) the floor of its
\* raw share plus its part of the leftover, total minus the sum of the floors:
\* with the participants ranked by descending fractional part of the raw share
\* and then ascending key, a leftover L > 0 among n participants gives each
\* L div n and the first L mod n of them one more; whatever the order in which
\* the map is ranged over.
C25_LargestRemainder ==
    (/\ Done("splitByPercent") \/ Done("splitByWeights")
     /\ call.result.err = "none") =>
        LET m == call.arg
            denom == IF call.fn = "splitByPercent"
                     THEN 100 * UnitsPerPercent ELSE SumMap(m)
            S == IF call.fn = "splitByPercent" THEN DOMAIN m
                 ELSE {k \in DOMAIN m : m[k] # 0}
            n == Cardinality(S)
            floors == [k \in S |-> FloorMulDiv(m[k], call.total, denom)]
            fracs == [k \in S |-> FracMulDiv(m[k], call.total, denom)]
            L == call.total - SumMap(floors)
            rank == [k \in S |->
                       Cardinality({j \in S : \/ fracs[j] > fracs[k]
                                              \/ fracs[j] = fracs[k] /\ StrLess(j, k)})]
            sh == call.result.shares
        IN /\ DOMAIN sh = S
           /\ \A k \in S :
                 sh[k] = floors[k] +
                    (IF L > 0
                     THEN (L \div n) + (IF rank[k] < L % n THEN 1 ELSE 0)
                     ELSE 0)

\* C25 witness: a percentage split whose leftover exceeds the number of
\* participants and ends between two participants of equal fractional part
C25_Witness ==
    /\ Done("splitByPercent") /\ call.result.err = "none"
    /\ LET m == call.arg
           floors == [k \in DOMAIN m |-> FloorMulDiv(m[k], call.total, 100 * UnitsPerPercent)]
           fracs == [k \in DOMAIN m |-> FracMulDiv(m[k], call.total, 100 * UnitsPerPercent)]
       IN /\ call.total - SumMap(floors) > Cardinality(DOMAIN m)
          /\ \E j \in DOMAIN m : \E k \in DOMAIN m :
                /\ fracs[j] = fracs[k]
                /\ call.result.shares[j] - floors[j] > call.result.shares[k] - floors[k]

-----------------------------------------------------------------------------
(* Properties of the validation, the edges and the stored expense *)

\* the expense passes the checks AddExpense makes before it takes the lock
PassesPreLock(e) ==
    /\ e.TotalMicroCents > 0
    /\ TrimSpace(e.Description) # <<>>
    /\ e.SplitMethod \in {"equal", "percentage", "weights"}

\* every key of the submitted map canonicalizes to a non-empty key of a
\* current member, and no two keys of the map to the same one
KeysAreMembers(m) ==
    /\ \A k \in DOMAIN m :
          CanonicalKey(k) # <<>> /\ CanonicalKey(k) \in DOMAIN people
    /\ \A j \in DOMAIN m : \A k \in DOMAIN m :
          j # k => CanonicalKey(j) # CanonicalKey(k)

\* C23: in every reachable group state, an AddExpense that passed the pre-lock
\* validation returns no error only if the group has at least two members,
\* the payer's canonical key is a member, and every key of the percentage map
\* and of the weight map, whatever the split method, canonicalizes to a
\* non-empty key of a current member without colliding with another key of
\* its map; a call that returns an error leaves the group as it was.
C23_UnderLockValidation ==
    \A e \in ExpenseInputs :
        PassesPreLock(e) =>
            \A r \in addExpense(Current, e) :
                /\ r.err = "none" =>
                      /\ MemberCount >= 2
                      /\ CanonicalKey(e.PaidBy) \in DOMAIN people
                      /\ KeysAreMembers(e.SplitPercentages)
                      /\ KeysAreMembers(e.SplitWeights)
                /\ r.err # "none" => r.state = Current

\* C23 witness: AddExpense has failed in a group of three members with an
\* expense, where an equal split whose payer is a member is rejected for a key
\* of its weight map that is no member
C23_Witness ==
    /\ last.op = "AddExpense" /\ last.err = "error"
    /\ MemberCount = 3 /\ ExpenseCount >= 1
    /\ \E e \in ExpenseInputs :
          /\ e.SplitMethod = "equal" /\ e.SplitWeights # NoMap
          /\ CanonicalKey(e.PaidBy) \in DOMAIN people
          /\ \A r \in addExpense(Current, e) : r.err = "UnknownParticipant"

\* the payer key of the logged expense id
PayerOf(id) == normalizeName(expenses[id].PaidBy)

\* C26: every edge carries the id of a logged expense and runs from a member
\* other than the payer of that expense to the payer; the payer has no edge
\* for an expense it paid; and for every logged expense every member other
\* than the payer with an entry in the share map has exactly one edge for it,
\* with the entry as its amount, and every other member has none.
C26_EdgesRunToThePayer ==
    /\ \A k \in DOMAIN nodes : \A i \in 1..Len(nodes[k]) :
          LET id == nodes[k][i].Metadata.ExpenseID
          IN /\ id \in DOMAIN expenses
             /\ nodes[k][i].To = PayerOf(id)
             /\ k # nodes[k][i].To
             /\ k \in DOMAIN people
    /\ \A id \in DOMAIN expenses :
          /\ EdgesOf(Current, PayerOf(id), id) = {}
          /\ \A k \in DOMAIN people :
                /\ Cardinality(EdgesOf(Current, k, id)) =
                      IF k \in (DOMAIN shareLog[id]) \ {PayerOf(id)} THEN 1 ELSE 0
                /\ \A i \in EdgesOf(Current, k, id) :
                      nodes[k][i].Metadata.AmountInMicroCents = shareLog[id][k]

\* C26 witness: an expense among three members whose payer has a share of its
\* own and whose two other members each have their edge
C26_Witness ==
    /\ MemberCount = 3
    /\ \E id \in DOMAIN expenses :
          /\ PayerShare(id) > 0
          /\ Cardinality({k \in DOMAIN people : EdgesOf(Current, k, id) # {}}) = 2

\* the edges from a to b
EdgesBetween(a, b) == {i \in 1..Len(nodes[a]) : nodes[a][i].To = b}

\* C27: no step changes or removes a stored edge: the edges of every node
\* stay, in their order, and the edges a step adds carry the id the step
\* assigned; and the edges from A to B are as many as the logged expenses paid
\* by B that give A a share, one for each of these ids.
C27_EdgesAreAppendOnly ==
    /\ [][\A k \in DOMAIN nodes :
             /\ k \in DOMAIN nodes'
             /\ Len(nodes'[k]) >= Len(nodes[k])
             /\ SubSeq(nodes'[k], 1, Len(nodes[k])) = nodes[k]
             /\ \A i \in (Len(nodes[k]) + 1)..Len(nodes'[k]) :
                   /\ nodes'[k][i].Metadata.ExpenseID = expenseIdCounter'
                   /\ expenseIdCounter' = expenseIdCounter + 1]_vars
    /\ [](\A p \in MemberPairs :
             LET ids == {id \in DOMAIN expenses :
                            PayerOf(id) = p[2] /\ p[1] \in DOMAIN shareLog[id]}
             IN /\ Cardinality(EdgesBetween(p[1], p[2])) = Cardinality(ids)
                /\ {nodes[p[1]][i].Metadata.ExpenseID : i \in EdgesBetween(p[1], p[2])} = ids)

\* C27 witness: two edges of one pair in one direction, for two expenses
C27_Witness ==
    \E p \in MemberPairs :
        /\ Cardinality(EdgesBetween(p[1], p[2])) = 2
        /\ expenseIdCounter = 2

\* the expense a successful outcome of AddExpense has stored
StoredBy(r) == r.state.expenses[r.state.expenseIdCounter]

\* the stored map holds the values of the submitted map under canonical keys
SameValues(stored, submitted) ==
    /\ DOMAIN stored = {CanonicalKey(k) : k \in DOMAIN submitted}
    /\ \A k \in DOMAIN submitted : stored[CanonicalKey(k)] = submitted[k]

\* C28 as stated: the expense a successful AddExpense stores has the total,
\* the payer, the description, the split method and the split values as
\* submitted, with the keys of the two maps in canonical form.
C28_StoredAsSubmitted ==
    \A e \in ExpenseInputs : \A r \in addExpense(Current, e) :
        r.err = "none" =>
            /\ StoredBy(r).TotalMicroCents = e.TotalMicroCents
            /\ StoredBy(r).PaidBy = e.PaidBy
            /\ StoredBy(r).Description = e.Description
            /\ StoredBy(r).SplitMethod = e.SplitMethod
            /\ SameValues(StoredBy(r).SplitPercentages, e.SplitPercentages)
            /\ SameValues(StoredBy(r).SplitWeights, e.SplitWeights)

\* C28 amended: the expense a successful AddExpense stores has the total, the
\* split method and the split values as submitted, with the keys of the two
\* maps in canonical form; the description is stored trimmed, and the payer is
\* stored as the display name under which the payer was registered.
C28_StoredWithRewrites ==
    \A e \in ExpenseInputs : \A r \in addExpense(Current, e) :
        r.err = "none" =>
            /\ StoredBy(r).ID = expenseIdCounter + 1
            /\ StoredBy(r).TotalMicroCents = e.TotalMicroCents
            /\ StoredBy(r).PaidBy = people[CanonicalKey(e.PaidBy)].Name
            /\ StoredBy(r).Description = TrimSpace(e.Description)
            /\ StoredBy(r).SplitMethod = e.SplitMethod
            /\ SameValues(StoredBy(r).SplitPercentages, e.SplitPercentages)
            /\ SameValues(StoredBy(r).SplitWeights, e.SplitWeights)

\* C28 witness: the log holds an equal expense, submitted with the description
\* " x ", and an expense paid by the member registered as "B", submitted with
\* the payer " b"
C28_Witness ==
    /\ last.op = "AddExpense" /\ last.err = "none"
    /\ \E id \in DOMAIN expenses :
          expenses[id].SplitMethod = "equal" /\ expenses[id].Description = <<"x">>
    /\ \E id \in DOMAIN expenses : expenses[id].PaidBy = <<"B">>
    /\ \E e \in ExpenseInputs : e.PaidBy = <<" ", "b">> /\ e.Description = <<" ", "x", " ">>

-----------------------------------------------------------------------------
(* Properties of the calls that return before the mutex, and of the registry *)

\* C24: an AddExpense with a total <= 0, a description that is blank after
\* trimming, or a split method other than equal, percentage and weights
\* returns its error from the idle goroutine in one step that takes no mutex
\* and changes nothing of the group, whoever holds the group's mutex; such a
\* call never waits for the mutex or holds it; and run on any group state it
\* returns an error and leaves the state as it was.
C24_PreLockValidation ==
    /\ [][\A t \in Goroutines :
             (/\ goroutines[t].pc = "idle"
              /\ goroutines'[t].op = "AddExpense"
              /\ ~PassesPreLock(goroutines'[t].arg)) =>
                /\ goroutines'[t].pc = "return"
                /\ goroutines'[t].err \in
                      {"NonPositiveTotal", "EmptyDescription", "InvalidSplitMethod"}
                /\ UNCHANGED <<groupVars, mu>>]_vars
    /\ [](\A t \in Goroutines :
             (goroutines[t].op = "AddExpense" /\ ~PassesPreLock(goroutines[t].arg)) =>
                goroutines[t].pc = "return" /\ Held(t) = {})
    /\ [](\A e \in ConcExpenses :
             ~PassesPreLock(e) =>
                \A r \in addExpense(Current, e) :
                    r.err # "none" /\ r.state = Current)

\* C24 witness: an AddExpense with a blank description has returned its error
\* while the other goroutine holds the group's mutex in the edge loop of its
\* own AddExpense
C24_Witness ==
    \E t \in Goroutines : \E u \in Goroutines :
        /\ goroutines[t].op = "AddExpense" /\ goroutines[t].pc = "return"
        /\ goroutines[t].err = "EmptyDescription"
        /\ mu["G"] = u /\ goroutines[u].pc = "edges"

\* C21: a Create call that holds the registry's mutex returns no error
\* exactly when the trimmed name matches the group-name pattern and the store,
\* as the call found it, has no group under the canonical key of the name; it
\* then leaves the store with the new group under that key, and otherwise
\* leaves the store as it found it: the call does what Create does when run
\* alone.  For every key the Create calls that succeeded are one more than the
\* Delete calls that deleted it when the key is registered, and as many when
\* it is not: of the Create calls for a key only one succeeds until the key
\* is deleted.
C21_CreateOncePerKey ==
    /\ \A t \in Goroutines :
          LET g == goroutines[t]
              name == TrimSpace(g.arg.Name)
              key == CanonicalKey(g.arg.Name)
              succeeds == g.pc = "put" \/ (g.pc = "unlock" /\ g.err = "none")
          IN (g.op = "Create" /\ g.pc \in {"put", "unlock"}) =>
                /\ succeeds <=> (groupNamePattern(name) /\ key \notin DOMAIN g.start)
                /\ g.pc = "unlock" =>
                      /\ g.err = Create(g.start, g.arg.Name).err
                      /\ store = Create(g.start, g.arg.Name).store
                      /\ g.err # "none" => store = g.start
                      /\ g.err = "none" => store = MapPut(g.start, key, [Name |-> name])
                /\ g.pc = "put" => store = g.start
    /\ \A key \in DOMAIN created :
          created[key] = IF key \in DOMAIN store THEN 1 ELSE 0
    /\ \A key \in DOMAIN store : CreatedCount(key) = 1

\* C21 witness: a Create has succeeded for the key "a" while the other
\* goroutine waits for the mutex with a Create of another spelling of the key
C21_Witness ==
    \E t \in Goroutines : \E u \in Goroutines :
        /\ goroutines[t].op = "Create" /\ goroutines[t].pc = "unlock"
        /\ goroutines[t].err = "none"
        /\ goroutines[u].op = "Create" /\ goroutines[u].pc = "lock"
        /\ goroutines[u].arg.Name # goroutines[t].arg.Name
        /\ CanonicalKey(goroutines[u].arg.Name) = CanonicalKey(goroutines[t].arg.Name)

-----------------------------------------------------------------------------
(* Properties of the tools *)

\* C29: a step in which the tool add_expense returns its success text
\* 'Expense added successfully.' is one in which Group.AddExpense committed
\* the expense: the counter went up by one and the log holds the new id; when
\* the group rejects the expense the tool returns an error.
C29_ToolSuccessMeansCommitted ==
    [][(last'.op = "add_expense" /\ last'.out = "Expense added successfully.") =>
          /\ expenseIdCounter' = expenseIdCounter + 1
          /\ DOMAIN expenses' = (DOMAIN expenses) \cup {expenseIdCounter'}]_vars

\* C30: a step in which the tool add_people returns an error leaves the
\* members and the graph as they were.
C30_AddPeopleAllOrNothing ==
    [][(last'.op = "add_people" /\ last'.err = "error") =>
          UNCHANGED <<people, nodes>>]_vars

-----------------------------------------------------------------------------
(* Frame of AddPerson *)

\* C31: AddPerson with a name that fails the name pattern or whose canonical
\* key is registered returns an error and leaves members, nodes, edges, the
\* expense log and the id counter as they were; a successful AddPerson adds
\* exactly one member and one node, the node has no edges, and every existing
\* member, node with its edges, expense and the id counter stay as they were.
C31_AddPersonFrame ==
    [][/\ \A name \in PersonNames :
             (\/ ~personNamePattern(TrimSpace(name))
              \/ CanonicalKey(name) \in DOMAIN people) =>
                LET r == addPerson(Current, name)
                IN r.err # "none" /\ r.state = Current
       /\ (last'.op = "AddPerson" /\ last'.err = "error") =>
             UNCHANGED groupVars
       /\ (last'.op = "AddPerson" /\ last'.err = "none") =>
             /\ \E k \in DOMAIN people' :
                   /\ k \notin DOMAIN people /\ k \notin DOMAIN nodes
                   /\ DOMAIN people' = (DOMAIN people) \cup {k}
                   /\ DOMAIN nodes' = (DOMAIN nodes) \cup {k}
                   /\ nodes'[k] = <<>>
             /\ \A k \in DOMAIN people : people'[k] = people[k]
             /\ \A k \in DOMAIN nodes : nodes'[k] = nodes[k]
             /\ expenses' = expenses
             /\ shareLog' = shareLog
             /\ expenseIdCounter' = expenseIdCounter]_vars

\* C31 witness: AddPerson has succeeded in a group that already had an
\* expense with an edge, and the member it added has no edge
C31_Witness ==
    /\ last.op = "AddPerson" /\ last.err = "none"
    /\ ExpenseCount >= 1 /\ EdgeCount >= 1
    /\ \E k \in DOMAIN nodes :
          /\ nodes[k] = <<>>
          /\ \A id \in DOMAIN expenses :
                k # normalizeName(expenses[id].PaidBy)

-----------------------------------------------------------------------------
(* The expense log and the id counter *)

\* C33: between calls the expense log holds exactly the ids
\* 1..expenseIdCounter: the counter is the number of logged expenses and the
\* ID field of a logged expense is its key; the first committed expense gets
\* the id 1, and an AddExpense that returns an error leaves the counter and
\* the log as they were.
C33_LogHoldsIdsUpToCounter ==
    /\ [](/\ DOMAIN expenses = 1..expenseIdCounter
          /\ ExpenseCount = expenseIdCounter
          /\ \A id \in DOMAIN expenses : expenses[id].ID = id)
    /\ [][/\ (last'.op = "AddExpense" /\ last'.err = "error") =>
                /\ expenseIdCounter' = expenseIdCounter
                /\ expenses' = expenses
          /\ (last'.op = "AddExpense" /\ last'.err = "none"
                /\ expenses = EmptyMap) =>
                /\ last'.out = 1
                /\ DOMAIN expenses' = {1}
                /\ expenseIdCounter' = 1]_vars

\* C33 witness: the log holds the ids 1 and 2 with the counter at 2, and the
\* last AddExpense failed in a group of three members
C33_Witness ==
    /\ last.op = "AddExpense" /\ last.err = "error"
    /\ expenseIdCounter = 2 /\ ExpenseCount = 2
    /\ 1 \in DOMAIN expenses /\ 2 \in DOMAIN expenses
    /\ MemberCount = 3

-----------------------------------------------------------------------------
(* Termination of the calls and release of the mutexes *)

\* the steps of the calls under way: all of ConcNext but the invocations
ConcStep ==
    \/ Lock
    \/ StepAddPersonNode
    \/ StepAddPersonStore
    \/ StepExpenseValidate
    \/ StepExpenseCounter
    \/ StepExpenseStore
    \/ StepExpenseEdge
    \/ StepRead
    \/ StepSize
    \/ StepCreateCheck
    \/ StepCreateStore
    \/ StepDelete
    \/ StepRegistryRead
    \/ Unlock
    \/ Return

\* the names and the expenses of the calls under the fair scheduler: two
\* members, an expense that passes every check and one that fails before the
\* lock
FairNames == {<<"A">>, <<"B">>}
FairExpenses ==
    {Expense(1500, <<"A">>, <<"x">>, "equal", NoMap, NoMap),
     Expense(0, <<"A">>, <<"x">>, "equal", NoMap, NoMap)}

\* every call of ConcNext, with the smaller inputs
FairNext ==
    \/ GoAddPersonOf(FairNames)
    \/ GoAddExpenseOf(FairExpenses)
    \/ GoRead
    \/ GoSizeOfOther
    \/ GoRegistry
    \/ ConcStep

\* a step of the call that goroutine t is in
StepOf(t) ==
    /\ goroutines[t].pc # "idle"
    /\ ConcStep
    /\ <<goroutines'[t].pc, goroutines'[t].todo>> # <<goroutines[t].pc, goroutines[t].todo>>

\* mu.Lock() of goroutine t returns
Acquire(t) == goroutines[t].pc = "lock" /\ StepOf(t)

\* The calls under a fair scheduler: a goroutine that can run is scheduled in
\* the end, and a goroutine that waits in mu.Lock() gets the mutex in the end if
\* the mutex is free again and again (sync.Mutex hands a starving waiter the
\* mutex).
ConcFairSpec ==
    /\ Init
    /\ [][FairNext]_vars
    /\ \A t \in Goroutines : WF_vars(StepOf(t)) /\ SF_vars(Acquire(t))

\* C32: under fair scheduling every invoked call returns, whatever the
\* interleaving; a goroutine that is not in a call, is waiting for its mutex
\* or returns without having locked holds no mutex, so every return path, the
\* error returns included, has released the mutex the call took; and in no
\* reachable state with a call under way are all calls blocked.
C32_CallsCompleteAndRelease ==
    /\ \A t \in Goroutines :
          (goroutines[t].pc # "idle") ~> (goroutines[t].pc = "idle")
    /\ [](\A t \in Goroutines :
             /\ ~InLockedSection(t) => Held(t) = {}
             /\ InLockedSection(t) => Held(t) = {goroutines[t].lock})
    /\ []((\E t \in Goroutines : goroutines[t].pc # "idle") =>
             \E t \in Goroutines : ENABLED StepOf(t))
    /\ [][\A t \in Goroutines :
             (goroutines[t].pc # "idle" /\ goroutines'[t].pc = "idle") =>
                 \A l \in Locks : mu'[l] # t]_vars

\* C32 witness: a call has taken the error return under the group's mutex
\* while the other goroutine waits for the same mutex
C32_Witness ==
    \E t, u \in Goroutines :
        /\ goroutines[t].pc = "unlock" /\ goroutines[t].err # "none"
        /\ goroutines[t].lock = "G" /\ mu["G"] = t
        /\ goroutines[u].pc = "lock" /\ goroutines[u].lock = "G"

=============================================================================
